---------------------------- MODULE Spec2Model ----------------------------
(***************************************************************************)
(* Weather-Risk-Checker: the sounding analysis pipeline (analyze_profile), *)
(* the CAPE/CIN integration loop (compute_cape_cin._cape_cin) and the      *)
(* rule cascade (_score_and_reason).                                       *)
(*                                                                         *)
(* Number representation.  The program computes in floats; the model uses  *)
(* integers in the unit each field is rounded to or compared in:           *)
(*   mlcape, mucape, mlcin, mucin   J/kg                                   *)
(*   ml_lcl_hgt, mu_lcl_hgt         m                                      *)
(*   shear_*_kt                     kt                                     *)
(*   srh_*                          hundredths (winds are tenths of kt)    *)
(*   scp, stp, ehi_*, ship          hundredths (round(x, 2))               *)
(*   vgp                            thousandths (round(x, 3))              *)
(*   lapse_*                        hundredths of C/km (round(x, 2))       *)
(*   pw_mm, rh_sfc, li              tenths (round(x, 1))                   *)
(*   craven                         units (round(x, 0))                    *)
(* A threshold of the code is written in the unit of its field, so         *)
(* stp >= 1.0 reads r.stp >= 100.                                          *)
(***************************************************************************)
EXTENDS Integers, Sequences, FiniteSets, TLC

VARIABLES
    pc,         \* analyze_profile: the stage about to run
    nlev,       \* len(profile.p_hpa)
    has_grid,   \* profile.grid_lats is not None
    result,     \* the EnvironmentAnalysis being populated
    failed,     \* stages whose try block raised
    attempted,  \* stages entered so far, in order
    winds,      \* profile.u_kt, profile.v_kt (set when the wind stage reads them)
    s_pc,       \* _score_and_reason called on its own: "idle", "call", "ret"
    s_in,       \* its argument as passed
    s_out,      \* its argument after the call
    c_pc,       \* compute_cape_cin: "idle", "ml", "mu", "ret"
    c_layers,   \* per parcel, the contributions b_mean * dz in loop order
    c_i,        \* layers processed so far
    c_cape,     \* the accumulator cape
    c_cin,      \* the accumulator cin
    c_ml,       \* (mlcape, mlcin) as returned by the first _cape_cin call
    c_ret,      \* the dict compute_cape_cin returns
    f_pc,       \* a met_core function called on its own: "idle", "call", "ret"
    f_in,       \* its arguments
    f_out,      \* what it returned
    r_pc,       \* run_analysis: "idle", "analyze", "render", "done"
    r_opts,     \* min_score_select.value, show_notes_toggle.value
    r_profiles, \* the profiles fetch_profiles returned
    r_heap,     \* the list objects allocated so far; a list's identity is its index
    r_analyses, \* analyses: per analysis its fields and the identities of its lists
    r_i         \* analyses the render loop has gone through

vars == <<pc, nlev, has_grid, result, failed, attempted, winds,
          s_pc, s_in, s_out, c_pc, c_layers, c_i, c_cape, c_cin,
          c_ml, c_ret, f_pc, f_in, f_out,
          r_pc, r_opts, r_profiles, r_heap, r_analyses, r_i>>

(***************************************************************************)
(* Helpers                                                                 *)
(***************************************************************************)
Max(a, b) == IF a >= b THEN a ELSE b

Min(a, b) == IF a <= b THEN a ELSE b

AppendIf(s, cond, e) == IF cond THEN Append(s, e) ELSE s

Mem(s, e) == \E i \in 1..Len(s) : s[i] = e

BoolToInt(b) == IF b THEN 1 ELSE 0

(***************************************************************************)
(* EnvironmentAnalysis and SUPPORT_LEVELS                                  *)
(***************************************************************************)
MinLevels == 4

EmptyBoundary ==
    [has_keys |-> FALSE, boundary_detected |-> FALSE, boundary_type |-> "None",
     max_gradient_k_per_100km |-> 0, notes |-> <<>>]

EnvironmentAnalysis ==
    [mlcape |-> 0, mucape |-> 0, mlcin |-> 0, mucin |-> 0,
     ml_lcl_hgt |-> 0, mu_lcl_hgt |-> 0, ml_lcl_t_c |-> 0, mu_lcl_t_c |-> 0,
     li |-> 0,
     lapse_700_500 |-> 0, lapse_sfc_700 |-> 0,
     pw_mm |-> 0, rh_sfc |-> 0,
     shear_01_kt |-> 0, shear_06_kt |-> 0, shear_36_kt |-> 0,
     srh_01 |-> 0, srh_03 |-> 0, srh_eff |-> 0,
     storm_motion_rm |-> <<0, 0>>, storm_speed_kt |-> 0,
     scp |-> 0, stp |-> 0, ehi_01 |-> 0, ehi_03 |-> 0,
     ship |-> 0, vgp |-> 0, craven |-> 0,
     boundary |-> EmptyBoundary,
     support_score |-> 0, support_label |-> "None",
     support_color |-> "grey", support_emoji |-> "black",
     convective_mode |-> "No Convective Threat",
     fail_modes |-> <<>>, notes |-> <<>>, warnings |-> <<>>]

SUPPORT_LEVELS ==
    << [score |-> 0, label |-> "None",     color |-> "grey",   emoji |-> "black"],
       [score |-> 1, label |-> "Marginal", color |-> "blue",   emoji |-> "blue"],
       [score |-> 2, label |-> "Limited",  color |-> "green",  emoji |-> "green"],
       [score |-> 3, label |-> "Moderate", color |-> "yellow", emoji |-> "yellow"],
       [score |-> 4, label |-> "Enhanced", color |-> "orange", emoji |-> "orange"],
       [score |-> 5, label |-> "Extreme",  color |-> "red",    emoji |-> "red"] >>

\* r.support_score, r.support_label, ... = SUPPORT_LEVELS[score] (0-based)
SetSupport(r, score) ==
    LET row == SUPPORT_LEVELS[score + 1] IN
    [r EXCEPT !.support_score = row.score, !.support_label = row.label,
              !.support_color = row.color, !.support_emoji = row.emoji]

(***************************************************************************)
(* _score_and_reason: the rule cascade.  The three local lists are carried *)
(* as one record L = [fail_modes, notes, warnings]; every message is       *)
(* represented by its fixed leading text.                                  *)
(***************************************************************************)
NoLists == [fail_modes |-> <<>>, notes |-> <<>>, warnings |-> <<>>]

Fail(L, cond, e) == [L EXCEPT !.fail_modes = AppendIf(@, cond, e)]

Note(L, cond, e) == [L EXCEPT !.notes = AppendIf(@, cond, e)]

Warn(L, cond, e) == [L EXCEPT !.warnings = AppendIf(@, cond, e)]

\* variant: the gate looks at MLCAPE alone
InstabilityGate_mlcape_only(r) == r.mlcape < 100

\* variant: the MUCAPE comparison is reversed
InstabilityGate_flipped(r) == r.mlcape < 100 /\ r.mucape > 200

\* if r.mlcape < 100 and r.mucape < 200
InstabilityGate(r) == r.mlcape < 100 /\ r.mucape < 200

\* the gated return: fail_modes replaced, notes and warnings left as passed
GatedResult(r) ==
    SetSupport([r EXCEPT !.convective_mode = "No Convective Threat",
                         !.fail_modes = <<"Insufficient instability">>], 0)

CinGating(r, L) ==
    IF r.mlcin < -200 THEN Fail(L, TRUE, "Extreme cap")
    ELSE IF r.mlcin < -75 THEN Fail(L, TRUE, "Moderate cap")
    ELSE IF r.mlcin < -25 THEN Note(L, TRUE, "Weak cap")
    ELSE L

LclRules(r, L) ==
    IF r.ml_lcl_hgt > 2000 THEN Fail(L, TRUE, "High LCL")
    ELSE IF r.ml_lcl_hgt > 1500 THEN Note(L, TRUE, "Elevated LCL")
    ELSE IF r.ml_lcl_hgt < 800 THEN Note(L, TRUE, "Very low LCL")
    ELSE L

LapseRules(r, L) ==
    LET L1 == IF r.lapse_700_500 >= 700
                 THEN Warn(L, TRUE, "Very steep 700-500 hPa lapse rate")
              ELSE IF r.lapse_700_500 >= 650
                 THEN Note(L, TRUE, "Steep mid-level lapse rate")
              ELSE L
    IN Fail(L1, r.lapse_sfc_700 < 500 /\ r.mlcape > 500,
            "Weak low-level lapse rate")

MoistureRules(r, L) ==
    LET L1 == IF r.rh_sfc < 400 THEN Fail(L, TRUE, "Very dry boundary layer")
              ELSE IF r.rh_sfc < 550
                 THEN Note(L, TRUE, "Marginal boundary-layer moisture")
              ELSE L
    IN Note(L1, r.pw_mm > 400, "Very high precipitable water")

ShearRule(r, L) ==
    Fail(L, r.shear_06_kt < 15 /\ r.mlcape > 1500,
         "Weak deep-layer shear (outflow dominant)")

\* the bands of the mode ladder
SupercellBand(r) == r.shear_06_kt >= 40 /\ r.mlcape >= 500

QlcsBand(r) == r.shear_06_kt >= 30 /\ r.mlcape >= 500

MulticellBand(r) == r.shear_06_kt >= 20 /\ r.mlcape >= 300

\* variant: the SCP tier is tested before the STP tiers
SupercellTier_scp_first(r) ==
    IF r.scp >= 400 THEN "Significant Supercell Environment"
    ELSE IF r.stp >= 200 THEN "Significant Tornadic Supercells"
    ELSE IF r.stp >= 100 THEN "Tornadic Supercells"
    ELSE IF r.stp >= 50 THEN "Supercells / Tornado Possible"
    ELSE "Supercellular"

\* the tiers inside the supercell band
SupercellTier(r) ==
    IF r.stp >= 200 THEN "Significant Tornadic Supercells"
    ELSE IF r.stp >= 100 THEN "Tornadic Supercells"
    ELSE IF r.stp >= 50 THEN "Supercells / Tornado Possible"
    ELSE IF r.scp >= 400 THEN "Significant Supercell Environment"
    ELSE "Supercellular"

QlcsTier(r) ==
    IF r.shear_36_kt >= 20 /\ r.srh_03 >= 10000
    THEN "QLCS / Embedded Supercells"
    ELSE "Organized Multicells / QLCS"

\* variant: the bands are tested from the weakest up
ConvectiveMode_bottom_up(r) ==
    IF MulticellBand(r) THEN "Multicell Clusters"
    ELSE IF QlcsBand(r) THEN QlcsTier(r)
    ELSE IF SupercellBand(r) THEN SupercellTier(r)
    ELSE "Pulse / Single Cell"

\* mode = ... (the local the ladder assigns)
ConvectiveMode(r) ==
    IF SupercellBand(r) THEN SupercellTier(r)
    ELSE IF QlcsBand(r) THEN QlcsTier(r)
    ELSE IF MulticellBand(r) THEN "Multicell Clusters"
    ELSE "Pulse / Single Cell"

\* the entries the ladder's branches append
ModeEntries(r, L) ==
    IF SupercellBand(r) THEN
        LET L1 == IF r.stp >= 200 THEN Warn(L, TRUE, "STP >= 2")
                  ELSE IF r.stp >= 100 THEN Warn(L, TRUE, "STP >= 1")
                  ELSE IF r.stp >= 50 THEN Note(L, TRUE, "STP marginal")
                  ELSE IF r.scp >= 400 THEN Warn(L, TRUE, "SCP >= 4")
                  ELSE L
        IN Warn(L1, r.ship >= 100, "SHIP >= 1")
    ELSE IF QlcsBand(r) THEN
        Note(L, r.shear_36_kt >= 20 /\ r.srh_03 >= 10000,
             "3-6km shear and mid-level SRH support embedded rotation")
    ELSE IF MulticellBand(r) THEN
        Warn(Note(L, r.mlcape < 1000, "Limited CAPE"),
             r.craven > 20000, "Craven-Brooks > 20,000")
    ELSE Fail(L, TRUE, "Weak deep-layer shear (isolated)")

\* variant: the weak-shear threshold of the earlier shear rule (15 kt) is used
OutflowDominance_15kt(r, L) ==
    Fail(L, r.mlcape > 2500 /\ r.shear_06_kt < 15,
         "Very high CAPE + weak shear (dominant outflow)")

OutflowDominance(r, L) ==
    Fail(L, r.mlcape > 2500 /\ r.shear_06_kt < 25,
         "Very high CAPE + weak shear (dominant outflow)")

EhiVgpFlags(r, L) ==
    LET L1 == IF r.ehi_01 >= 250 THEN Warn(L, TRUE, "EHI(0-1km) >= 2.5")
              ELSE IF r.ehi_01 >= 100 THEN Note(L, TRUE, "EHI(0-1km) >= 1.0")
              ELSE L
    IN Note(L1, r.vgp >= 200, "VGP >= 0.2")

\* r.boundary.get("boundary_detected") is None on the empty dict
BoundaryInfluence(r, L) ==
    IF r.boundary.has_keys /\ r.boundary.boundary_detected
    THEN [L EXCEPT !.notes =
              Append(@, "Mesoscale boundary nearby") \o r.boundary.notes]
    ELSE L

\* variant: the second CAPE increment is awarded below 1500 J/kg
SupportScore_flipped(r) ==
    Min(BoolToInt(r.mlcape > 500)
        + BoolToInt(r.mlcape < 1500)
        + BoolToInt(r.shear_06_kt > 30)
        + BoolToInt(r.scp > 200 \/ r.stp > 50)
        + BoolToInt(r.srh_01 > 20000 /\ r.stp >= 100), 5)

\* variant: the composite increment needs both SCP and STP
SupportScore_and(r) ==
    Min(BoolToInt(r.mlcape > 500)
        + BoolToInt(r.mlcape > 1500)
        + BoolToInt(r.shear_06_kt > 30)
        + BoolToInt(r.scp > 200 /\ r.stp > 50)
        + BoolToInt(r.srh_01 > 20000 /\ r.stp >= 100), 5)

\* score = 0; five increments; score = min(score, 5)
SupportScore(r) ==
    Min(BoolToInt(r.mlcape > 500)
        + BoolToInt(r.mlcape > 1500)
        + BoolToInt(r.shear_06_kt > 30)
        + BoolToInt(r.scp > 200 \/ r.stp > 50)
        + BoolToInt(r.srh_01 > 20000 /\ r.stp >= 100), 5)

\* the lists as they stand when the scoring block is reached
CascadeLists(r) ==
    BoundaryInfluence(r,
      EhiVgpFlags(r,
        OutflowDominance(r,
          ModeEntries(r,
            ShearRule(r,
              MoistureRules(r,
                LapseRules(r,
                  LclRules(r,
                    CinGating(r, NoLists)))))))))

_score_and_reason(r) ==
    IF InstabilityGate(r) THEN GatedResult(r)
    ELSE LET L == CascadeLists(r) IN
         SetSupport([r EXCEPT !.convective_mode = ConvectiveMode(r),
                              !.fail_modes = L.fail_modes,
                              !.notes = L.notes,
                              !.warnings = L.warnings],
                    SupportScore(r))

(***************************************************************************)
(* compute_cape_cin.  The parcel and environment temperatures come from    *)
(* exp/log formulas; the model starts from what the integration loop sees: *)
(* for each parcel the sequence contribution = b_mean * dz of the layers   *)
(* above its origin (J/kg), and the parcel's T and Td for the LCL.         *)
(***************************************************************************)
\* variant: every negative layer adds to CIN
LayerStep_always_cin(cape, cin, contribution) ==
    IF contribution > 0 THEN <<cape + contribution, cin>>
    ELSE <<cape, cin + contribution>>

\* one pass of the loop body
LayerStep(cape, cin, contribution) ==
    IF contribution > 0 THEN <<cape + contribution, cin>>
    ELSE IF cape = 0 THEN <<cape, cin + contribution>>
    ELSE <<cape, cin>>

RECURSIVE IntegrateFrom(_, _, _, _)
IntegrateFrom(layers, i, cape, cin) ==
    IF i > Len(layers) THEN <<cape, cin>>
    ELSE LET s == LayerStep(cape, cin, layers[i]) IN
         IntegrateFrom(layers, i + 1, s[1], s[2])

\* len(p_above) < 2 leaves no layer and returns (0.0, 0.0), as the loop does
_cape_cin(layers) == IntegrateFrom(layers, 1, 0, 0)

\* max(0.0, 125.0 * (t_sfc_c - td_sfc_c))
lcl_height(t_c, td_c) == Max(0, 125 * (t_c - td_c))

\* variant: the dict reports the net energy cape + cin, without the floor
CapeCinDict_net(ml, mu, lcl) ==
    [mlcape |-> ml[1] + ml[2], mucape |-> mu[1] + mu[2],
     mlcin |-> ml[2], mucin |-> mu[2],
     ml_lcl_hgt |-> lcl.ml_lcl_hgt, mu_lcl_hgt |-> lcl.mu_lcl_hgt,
     ml_lcl_t_c |-> lcl.ml_lcl_t_c, mu_lcl_t_c |-> lcl.mu_lcl_t_c]

\* the returned dict, from the two (cape, cin) pairs and the LCL values
CapeCinDict(ml, mu, lcl) ==
    [mlcape |-> Max(0, ml[1]), mucape |-> Max(0, mu[1]),
     mlcin |-> ml[2], mucin |-> mu[2],
     ml_lcl_hgt |-> lcl.ml_lcl_hgt, mu_lcl_hgt |-> lcl.mu_lcl_hgt,
     ml_lcl_t_c |-> lcl.ml_lcl_t_c, mu_lcl_t_c |-> lcl.mu_lcl_t_c]

NoDict == CapeCinDict(<<0, 0>>, <<0, 0>>,
              [ml_lcl_hgt |-> 0, mu_lcl_hgt |-> 0, ml_lcl_t_c |-> 0, mu_lcl_t_c |-> 0])

\* input bounds
MaxLayers == 3

LayerVals == {-300, -200, 250, 1300}

LayerSeqs == UNION {[1..n -> LayerVals] : n \in 0..MaxLayers}

\* a parcel as <<T, Td, T_lcl>> in whole degrees C; T_lcl stands for the value
\* lcl_temperature (Bolton eq. 15, a logarithm) returns for that T and Td
MlParcels == {<<30, 26, 25>>, <<30, 14, 10>>, <<30, 13, 9>>}

MuParcels == {<<5, -5, -7>>}

LclOf(ml, mu) ==
    [ml_lcl_hgt |-> lcl_height(ml[1], ml[2]), mu_lcl_hgt |-> lcl_height(mu[1], mu[2]),
     ml_lcl_t_c |-> ml[3], mu_lcl_t_c |-> mu[3]]

(***************************************************************************)
(* Kinematics.  Winds are whole knots per level; inside the functions they *)
(* are carried in tenths of a knot, because the Bunkers deviation is       *)
(* 14.6 kt.  Quotients and square roots are truncated to the unit.         *)
(***************************************************************************)
RECURSIVE IsqrtIn(_, _, _)
IsqrtIn(x, lo, hi) ==
    IF lo >= hi THEN lo
    ELSE LET mid == (lo + hi + 1) \div 2 IN
         IF mid * mid <= x THEN IsqrtIn(x, mid, hi) ELSE IsqrtIn(x, lo, mid - 1)

\* floor(sqrt(x)) for 0 <= x < 2^30
Isqrt(x) == IsqrtIn(x, 0, 32767)

\* round(n / d) for n >= 0, d > 0
RoundDiv(n, d) == (2 * n + d) \div (2 * d)

RECURSIVE InterpFrom(_, _, _, _)
InterpFrom(x, xp, fp, i) ==
    IF i >= Len(xp) THEN fp[Len(xp)]
    ELSE IF x < xp[i + 1]
         THEN fp[i] + ((fp[i + 1] - fp[i]) * (x - xp[i])) \div (xp[i + 1] - xp[i])
         ELSE InterpFrom(x, xp, fp, i + 1)

\* np.interp(x, xp, fp): linear inside, the end values outside
Interp(x, xp, fp) == IF x <= xp[1] THEN fp[1] ELSE InterpFrom(x, xp, fp, 1)

Tenths(s) == [i \in 1..Len(s) |-> 10 * s[i]]

\* sqrt((u_top - u_bot)^2 + (v_top - v_bot)^2), in kt
bulk_shear(h, u, v, bottom_m, top_m) ==
    LET du == Interp(top_m, h, Tenths(u)) - Interp(bottom_m, h, Tenths(u))
        dv == Interp(top_m, h, Tenths(v)) - Interp(bottom_m, h, Tenths(v))
    IN Isqrt(du * du + dv * dv) \div 10

\* indices of the levels with bot <= h <= top; heights ascend from 0, so a
\* mask selects the first n levels
InLayer(h, bot, top) == {i \in 1..Len(h) : h[i] >= bot /\ h[i] <= top}

\* indices of the levels with h <= top
AtOrBelow(h, top) == {i \in 1..Len(h) : h[i] <= top}

RECURSIVE TrapzFrom(_, _, _, _)
TrapzFrom(f, h, i, n) ==
    IF i >= n THEN 0
    ELSE (f[i] + f[i + 1]) * (h[i + 1] - h[i]) + TrapzFrom(f, h, i + 1, n)

\* np.trapz(f[:n], h[:n]) / (h[n-1] - h[0])
TrapzMean(f, h, n) == TrapzFrom(f, h, 1, n) \div (2 * (h[n] - h[1]))

\* bunkers_storm_motion, top_m = 6000, D_kt = 14.6; tenths of kt
bunkers_storm_motion(h, u, v) ==
    LET n == Cardinality(AtOrBelow(h, 6000)) IN
    IF n < 2 THEN [rm_u |-> 0, rm_v |-> 0, lm_u |-> 0, lm_v |-> 0,
                   mean_u |-> 0, mean_v |-> 0]
    ELSE LET mean_u == TrapzMean(Tenths(u), h, n)
             mean_v == TrapzMean(Tenths(v), h, n)
             sh_u == 10 * (u[n] - u[1])
             sh_v == 10 * (v[n] - v[1])
             shear_mag == Isqrt(sh_u * sh_u + sh_v * sh_v)
         IN IF shear_mag < 5
            THEN [rm_u |-> mean_u + 75, rm_v |-> mean_v - 75,
                  lm_u |-> mean_u - 75, lm_v |-> mean_v + 75,
                  mean_u |-> mean_u, mean_v |-> mean_v]
            ELSE LET du == (146 * sh_v) \div shear_mag
                     dv == (146 * (0 - sh_u)) \div shear_mag
                 IN [rm_u |-> mean_u + du, rm_v |-> mean_v + dv,
                     lm_u |-> mean_u - du, lm_v |-> mean_v - dv,
                     mean_u |-> mean_u, mean_v |-> mean_v]

RECURSIVE CrossSum(_, _, _, _)
CrossSum(ru, rv, i, n) ==
    IF i >= n THEN 0
    ELSE ru[i] * rv[i + 1] - ru[i + 1] * rv[i] + CrossSum(ru, rv, i + 1, n)

\* variant: the sum is returned without the change of sign
compute_srh_unnegated(h, u, v, storm_u, storm_v, layer_top_m) ==
    LET idx == InLayer(h, 0, layer_top_m)
        n == Cardinality(idx)
    IN IF n < 2 THEN 0
       ELSE LET ru == [i \in 1..n |-> 10 * u[i] - storm_u]
                rv == [i \in 1..n |-> 10 * v[i] - storm_v]
            IN CrossSum(ru, rv, 1, n)

\* compute_srh with layer_bot_m = 0; storm motion in tenths, result in hundredths
compute_srh(h, u, v, storm_u, storm_v, layer_top_m) ==
    LET idx == InLayer(h, 0, layer_top_m)
        n == Cardinality(idx)
    IN IF n < 2 THEN 0
       ELSE LET ru == [i \in 1..n |-> 10 * u[i] - storm_u]
                rv == [i \in 1..n |-> 10 * v[i] - storm_v]
            IN 0 - CrossSum(ru, rv, 1, n)

\* the speed half of uv_to_dir_spd, tenths of kt
storm_speed(u, v) == Isqrt(u * u + v * v)

(***************************************************************************)
(* Composite parameters.  Each product is formed factor by factor so that  *)
(* every intermediate stays below 2^31; the last division rounds.          *)
(***************************************************************************)
Clamp(lo, x, hi) == Max(lo, Min(hi, x))

\* variant: the shear condition is missing from the gate
supercell_composite_no_shear_gate(mucape, eff_srh, shear_06_kt) ==
    IF mucape < 100 \/ eff_srh <= 0 THEN 0
    ELSE RoundDiv(((mucape * shear_06_kt) \div 20) * eff_srh, 50000)

supercell_composite(mucape, eff_srh, shear_06_kt) ==
    IF mucape < 100 \/ eff_srh <= 0 \/ shear_06_kt < 10 THEN 0
    ELSE RoundDiv(((mucape * shear_06_kt) \div 20) * eff_srh, 50000)

\* variant: the CIN factor is left out of the product
significant_tornado_parameter_no_cin(mlcape, ml_lcl_hgt, srh_01, shear_06_kt, mlcin) ==
    IF mlcape < 100 \/ srh_01 <= 0 \/ shear_06_kt < 12 THEN 0
    ELSE LET lcl_factor == Clamp(0, 2000 - ml_lcl_hgt, 1000)
             a == (mlcape * lcl_factor) \div 1500
             c == (a * shear_06_kt) \div 20
         IN RoundDiv(c * srh_01, 150000)

significant_tornado_parameter(mlcape, ml_lcl_hgt, srh_01, shear_06_kt, mlcin) ==
    IF mlcape < 100 \/ srh_01 <= 0 \/ shear_06_kt < 12 THEN 0
    ELSE LET lcl_factor == Clamp(0, 2000 - ml_lcl_hgt, 1000)   \* thousandths
             cin_factor == Clamp(0, mlcin + 200, 150)          \* of 150
             a == (mlcape * lcl_factor) \div 1500
             b == (a * cin_factor) \div 150
             c == (b * shear_06_kt) \div 20
         IN RoundDiv(c * srh_01, 150000)

energy_helicity_index(cape, srh) ==
    IF cape < 100 \/ srh <= 0 THEN 0
    ELSE RoundDiv(cape * srh, 160000)

significant_hail_parameter(mucape, mu_lcl_t_c, mid_lapse, pw, shear_06_kt) ==
    IF mucape < 100 THEN 0
    ELSE LET lcl_t_term == Max(0, 0 - mu_lcl_t_c)                    \* tenths
             lapse_term == Max(0, mid_lapse)                         \* of 550
             pw_term == Clamp(0, (pw * 1000) \div 136, 1500)         \* thousandths
             shear_term == Min(1500, (shear_06_kt * 1000) \div 27)   \* thousandths
             a == (mucape * lcl_t_term * lapse_term) \div 550
             b == (a * pw_term) \div 1000
             c == (b * shear_term) \div 1000
         IN RoundDiv(c, 100)

vorticity_generation_parameter(srh_01, shear_01_kt) ==
    IF srh_01 <= 0 \/ shear_01_kt <= 0 THEN 0
    ELSE Isqrt((Max(0, srh_01) * shear_01_kt) \div 100)

craven_brooks(mlcape, shear_06_kt) == RoundDiv(mlcape * shear_06_kt * 514, 1000)

(***************************************************************************)
(* Column diagnostics                                                      *)
(***************************************************************************)
\* lapse_rate; t in whole degrees C, result in hundredths of C/km
lapse_rate(h, t, bot_m, top_m) ==
    LET t_bot == Interp(bot_m, h, Tenths(t))
        t_top == Interp(top_m, h, Tenths(t))
    IN IF top_m - bot_m < 100 THEN 0
       ELSE ((t_bot - t_top) * 20000 + (top_m - bot_m)) \div (2 * (top_m - bot_m))

\* round(min(100.0, e_sfc / es_sfc * 100.0), 1), from the ratio in tenths of a percent
SurfaceRh(ratio) == Min(1000, ratio)

\* round(-result.mlcape / 500.0, 1), tenths
LiProxy(mlcape) == 0 - RoundDiv(mlcape * 10, 500)

(***************************************************************************)
(* The profiles analysed                                                   *)
(***************************************************************************)
MaxLevels == 4

\* heights_m_agl of level i: 0, 1000, 3000, 6000, 9000, ...
HeightOf(i) == IF i = 1 THEN 0 ELSE IF i = 2 THEN 1000 ELSE 3000 * (i - 2)

Heights(n) == [i \in 1..n |-> HeightOf(i)]

\* hodograph shapes (kt per unit of speed) at the levels 0, 1, 3 and 6 km;
\* the wind above 6 km repeats the 6 km wind
Straight == [u |-> <<0, 3, 6, 11>>, v |-> <<0, 0, 0, 0>>]

Curved == [u |-> <<0, 0, 4, 8>>, v |-> <<0, 3, 6, 6>>]

WindScales == {0, 2, 5}

WindOf(shape, k, n) ==
    [u |-> [i \in 1..n |-> k * shape.u[Min(i, 4)]],
     v |-> [i \in 1..n |-> k * shape.v[Min(i, 4)]]]

NoWinds == [u |-> <<>>, v |-> <<>>]

WindProfiles(n) == {WindOf(sh, k, n) : sh \in {Straight, Curved}, k \in WindScales}

\* t_c at the levels, whole degrees C; above 6 km it cools 8 C per level
SteepSounding == <<30, 22, 6, -16>>

StableSounding == <<30, 24, 17, -1>>

TempOf(shape, n) == [i \in 1..n |-> IF i <= 4 THEN shape[i] ELSE shape[4] - 8 * (i - 4)]

TempProfiles(n) == {TempOf(sh, n) : sh \in {SteepSounding, StableSounding}}

\* the layer contributions seen by the two _cape_cin calls
MlSoundings ==
    {<<>>, <<-300>>, <<250>>, <<250, 250>>, <<-200, 1300>>,
     <<-300, 1300, 1300>>, <<1300, 1300, -300>>}

MuSoundings == {<<>>, <<1300, 1300, 1300>>}

\* precipitable_water (tenths of mm) and e_sfc / es_sfc (tenths of a percent)
PwVals == {250, 410}

RhRatios == {350, 1040}

\* the lifted index, tenths, when p_lcl > 500
LiVals == {-30}

\* what detect_boundaries returns
BoundaryResults ==
    {[has_keys |-> TRUE, boundary_detected |-> FALSE, boundary_type |-> "None",
      max_gradient_k_per_100km |-> 0, notes |-> <<>>],
     [has_keys |-> TRUE, boundary_detected |-> TRUE,
      boundary_type |-> "Near Mesoscale Boundary",
      max_gradient_k_per_100km |-> 45, notes |-> <<"theta-e gradient nearby">>]}

\* variant: the sub-record of the skipped detection carries no note
GridUnavailable_silent ==
    [has_keys |-> TRUE, boundary_detected |-> FALSE, boundary_type |-> "None",
     max_gradient_k_per_100km |-> 0, notes |-> <<>>]

GridUnavailable ==
    [has_keys |-> TRUE, boundary_detected |-> FALSE, boundary_type |-> "None",
     max_gradient_k_per_100km |-> 0,
     notes |-> <<"Grid data unavailable; boundary detection skipped">>]

(***************************************************************************)
(* detect_boundaries on a grid of three columns.  g.te is theta-e per cell *)
(* in tenths of K, rows and columns lie g.spacing whole degrees apart from *)
(* 0, the target is at (g.target_lat, g.target_lon); radius_deg = 2 and    *)
(* gradient_threshold = 3 are the defaults.                                *)
(***************************************************************************)
GridCols == 3

\* twice np.gradient of the sequence f at index k: one-sided at the two ends
GradAxis(f, k, n) ==
    IF k = 1 THEN 2 * (f[2] - f[1])
    ELSE IF k = n THEN 2 * (f[n] - f[n - 1])
    ELSE f[k + 1] - f[k - 1]

\* dy**2 + dx**2 at cell (i, j), in (K / 20 per grid step) squared
GradSq(g, i, j) ==
    LET dy == GradAxis([r \in 1..g.rows |-> g.te[r][j]], i, g.rows)
        dx == GradAxis(g.te[i], j, GridCols)
    IN dy * dy + dx * dx

\* grad / km_per_step * 100 >= gradient_threshold, km_per_step = 111 * spacing
AtThreshold(sq, spacing) == 25 * sq >= (333 * spacing) * (333 * spacing)

\* round(max_grad, 1), tenths of K per 100 km
GradPer100km(sq, spacing) == RoundDiv(Isqrt(sq) * 50, 111 * spacing)

\* np.argmin(np.abs(coords - target)): the first nearest index
NearestIndex(n, spacing, target) ==
    LET d(i) == IF (i - 1) * spacing >= target THEN (i - 1) * spacing - target
                ELSE target - (i - 1) * spacing
    IN CHOOSE i \in 1..n : \A k \in 1..n : d(i) < d(k) \/ (d(i) = d(k) /\ i <= k)

\* variant: the whole axis is searched, whatever the radius
WindowRange_whole(it, k, n) == 1..n

\* i_min .. i_max - 1
WindowRange(it, k, n) == Max(1, it - k)..Min(n, it + k)

\* np.abs(coords - target) <= radius_deg somewhere
InRadius(n, spacing, target) ==
    \E i \in 1..n : (i - 1) * spacing - target <= 2 /\ target - (i - 1) * spacing <= 2

NoBoundary ==
    [has_keys |-> TRUE, boundary_detected |-> FALSE, boundary_type |-> "None",
     max_gradient_k_per_100km |-> 0, notes |-> <<>>]

detect_boundaries(g) ==
    IF ~(InRadius(g.rows, g.spacing, g.target_lat)
         /\ InRadius(GridCols, g.spacing, g.target_lon))
    THEN NoBoundary
    ELSE IF g.rows < 2          \* np.gradient raises on an axis of one point
    THEN [NoBoundary EXCEPT !.notes = <<"Boundary analysis incomplete">>]
    ELSE
    LET it == NearestIndex(g.rows, g.spacing, g.target_lat)
        jt == NearestIndex(GridCols, g.spacing, g.target_lon)
        k == 2 \div g.spacing
        cells == WindowRange(it, k, g.rows) \X WindowRange(jt, k, GridCols)
        top == CHOOSE c \in cells :
                   \A d \in cells : GradSq(g, d[1], d[2]) <= GradSq(g, c[1], c[2])
        max_sq == GradSq(g, top[1], top[2])
        te_sum == LET RECURSIVE Sum(_)
                      Sum(S) == IF S = {} THEN 0
                                ELSE LET c == CHOOSE c \in S : TRUE
                                     IN g.te[c[1]][c[2]] + Sum(S \ {c})
                  IN Sum(cells)
        n == Cardinality(cells)
        te_target == g.te[it][jt]
        measured == [NoBoundary EXCEPT
                        !.max_gradient_k_per_100km = GradPer100km(max_sq, g.spacing)]
    IN IF ~AtThreshold(max_sq, g.spacing) THEN measured
       ELSE IF te_target * n > te_sum + 20 * n
       THEN [measured EXCEPT !.boundary_detected = TRUE,
                             !.boundary_type = "Warm Sector / Moisture Axis",
                             !.notes = <<"High theta-e air at point">>]
       ELSE IF te_target * n < te_sum - 20 * n
       THEN [measured EXCEPT !.boundary_detected = TRUE,
                             !.boundary_type = "Cold/Dry Side of Boundary",
                             !.notes = <<"Low theta-e at point">>]
       ELSE [measured EXCEPT !.boundary_detected = TRUE,
                             !.boundary_type = "Near Mesoscale Boundary",
                             !.notes = <<"theta-e gradient nearby">>]

(***************************************************************************)
(* analyze_profile, stage by stage                                         *)
(***************************************************************************)
PipelineIdle ==
    /\ pc = "idle" /\ nlev = 0 /\ has_grid = FALSE
    /\ result = EnvironmentAnalysis /\ failed = {} /\ attempted = <<>>
    /\ winds = NoWinds

ScoreIdle ==
    /\ s_pc = "idle" /\ s_in = EnvironmentAnalysis /\ s_out = EnvironmentAnalysis

CapeIdle ==
    /\ c_pc = "idle" /\ c_layers = [ml |-> <<>>, mu |-> <<>>] /\ c_i = 0
    /\ c_cape = 0 /\ c_cin = 0 /\ c_ml = <<0, 0>> /\ c_ret = NoDict

FnIdle == f_pc = "idle" /\ f_in = <<>> /\ f_out = <<>>

fnVars == <<f_pc, f_in, f_out>>

RunIdle ==
    /\ r_pc = "idle" /\ r_opts = <<>> /\ r_profiles = <<>> /\ r_heap = <<>>
    /\ r_analyses = <<>> /\ r_i = 0

runVars == <<r_pc, r_opts, r_profiles, r_heap, r_analyses, r_i>>

scoreVars == <<s_pc, s_in, s_out>>

capeVars == <<c_pc, c_layers, c_i, c_cape, c_cin, c_ml, c_ret>>

pipeVars == <<pc, nlev, has_grid, result, failed, attempted, winds>>

Init ==
    /\ pc = "start"
    /\ nlev \in 0..MaxLevels
    /\ has_grid \in BOOLEAN
    /\ result = EnvironmentAnalysis
    /\ failed = {}
    /\ attempted = <<>>
    /\ winds = NoWinds
    /\ ScoreIdle /\ CapeIdle /\ FnIdle /\ RunIdle

\* variant: the level check is off by one
TooFewLevels_off_by_one(n) == n < MinLevels - 1

\* if len(p) < 4
TooFewLevels(n) == n < MinLevels

Start ==
    /\ pc = "start"
    /\ IF TooFewLevels(nlev)
       THEN /\ result' = [result EXCEPT !.fail_modes =
                              Append(@, "Insufficient vertical levels")]
            /\ pc' = "done"
       ELSE /\ result' = result
            /\ pc' = "instability"
    /\ UNCHANGED <<nlev, has_grid, failed, attempted, winds, scoreVars, capeVars, fnVars, runVars>>

\* the eight assignments after compute_cape_cin returned
WithCape(r, d) ==
    [r EXCEPT !.mlcape = d.mlcape, !.mucape = d.mucape,
              !.mlcin = d.mlcin, !.mucin = d.mucin,
              !.ml_lcl_hgt = d.ml_lcl_hgt, !.mu_lcl_hgt = d.mu_lcl_hgt,
              !.ml_lcl_t_c = d.ml_lcl_t_c, !.mu_lcl_t_c = d.mu_lcl_t_c]

\* a stage runs: it is entered, and the next stage is up
Enter(stage, next) ==
    /\ pc = stage
    /\ pc' = next
    /\ attempted' = Append(attempted, stage)
    /\ UNCHANGED <<nlev, has_grid, scoreVars, capeVars, fnVars, runVars>>

\* a stage other than the wind stage
Stage(stage, next) == Enter(stage, next) /\ UNCHANGED winds

Raised(stage) == failed' = failed \cup {stage}

Instability ==
    /\ Stage("instability", "li")
    /\ \/ /\ \E ml \in MlSoundings, mu \in MuSoundings,
                pml \in MlParcels, pmu \in MuParcels :
                /\ Len(ml) <= nlev - 1 /\ Len(mu) <= nlev - 1
                /\ result' = WithCape(result,
                       CapeCinDict(_cape_cin(ml), _cape_cin(mu), LclOf(pml, pmu)))
          /\ UNCHANGED failed
       \/ /\ result' = [result EXCEPT !.notes =
                            Append(@, "CAPE calculation incomplete")]
          /\ Raised("instability")

LiftedIndex ==
    /\ Stage("li", "lapse")
    /\ \/ /\ \E li \in LiVals : result' = [result EXCEPT !.li = li]
          /\ UNCHANGED failed
       \/ UNCHANGED <<result, failed>>       \* p_lcl <= 500: li is not assigned
       \/ /\ result' = [result EXCEPT !.li = LiProxy(result.mlcape)]
          /\ Raised("li")

LapseRates ==
    /\ Stage("lapse", "moisture")
    /\ \/ /\ \E t \in TempProfiles(nlev) :
                result' = [result EXCEPT
                    !.lapse_700_500 = lapse_rate(Heights(nlev), t, 3000, 5500),
                    !.lapse_sfc_700 = lapse_rate(Heights(nlev), t, 0, 3000)]
          /\ UNCHANGED failed
       \/ /\ UNCHANGED result
          /\ Raised("lapse")

Moisture ==
    /\ Stage("moisture", "rh")
    /\ \/ /\ \E pw \in PwVals : result' = [result EXCEPT !.pw_mm = pw]
          /\ UNCHANGED failed
       \/ /\ UNCHANGED result
          /\ Raised("moisture")

SurfaceHumidity ==
    /\ Stage("rh", "kinematics")
    /\ \/ /\ \E x \in RhRatios : result' = [result EXCEPT !.rh_sfc = SurfaceRh(x)]
          /\ UNCHANGED failed
       \/ /\ result' = [result EXCEPT !.rh_sfc = 600]
          /\ Raised("rh")

\* the three bulk_shear assignments
WithShear(r, h, w) ==
    [r EXCEPT !.shear_01_kt = bulk_shear(h, w.u, w.v, 0, 1000),
              !.shear_06_kt = bulk_shear(h, w.u, w.v, 0, 6000),
              !.shear_36_kt = bulk_shear(h, w.u, w.v, 3000, 6000)]

\* if result.mlcape >= 100 and result.mlcin >= -250
\* variant: the 0-3 km SRH is taken whatever MLCAPE and MLCIN are
EffectiveSrh_ungated(r, srh_03) == srh_03

\* if result.mlcape >= 100 and result.mlcin >= -250
EffectiveSrh(r, srh_03) == IF r.mlcape >= 100 /\ r.mlcin >= -250 THEN srh_03 ELSE 0

\* storm motion, the SRH layers and the effective-layer SRH
WithStorm(r, h, w) ==
    LET bunk == bunkers_storm_motion(h, w.u, w.v)
        srh_03 == compute_srh(h, w.u, w.v, bunk.rm_u, bunk.rm_v, 3000)
    IN [r EXCEPT !.storm_motion_rm = <<bunk.rm_u, bunk.rm_v>>,
                 !.storm_speed_kt = storm_speed(bunk.rm_u, bunk.rm_v),
                 !.srh_01 = compute_srh(h, w.u, w.v, bunk.rm_u, bunk.rm_v, 1000),
                 !.srh_03 = srh_03,
                 !.srh_eff = EffectiveSrh(r, srh_03)]

KinNote(r) == [r EXCEPT !.notes = Append(@, "Kinematic calculations incomplete")]

Kinematics ==
    /\ Enter("kinematics", "composite")
    /\ winds' \in WindProfiles(nlev)
    /\ \/ /\ result' = WithStorm(WithShear(result, Heights(nlev), winds'),
                                 Heights(nlev), winds')
          /\ UNCHANGED failed
       \/ /\ result' = KinNote(result)                 \* bulk_shear raised
          /\ Raised("kinematics")
       \/ /\ result' = KinNote(WithShear(result, Heights(nlev), winds'))
          /\ Raised("kinematics")                      \* bunkers_storm_motion raised

WithComposites(r) ==
    [r EXCEPT
        !.scp = supercell_composite(r.mucape, r.srh_eff, r.shear_06_kt),
        !.stp = significant_tornado_parameter(
                    r.mlcape, r.ml_lcl_hgt, r.srh_01, r.shear_06_kt, r.mlcin),
        !.ehi_01 = energy_helicity_index(r.mlcape, r.srh_01),
        !.ehi_03 = energy_helicity_index(r.mlcape, r.srh_03),
        !.ship = significant_hail_parameter(
                    r.mucape, r.mu_lcl_t_c, r.lapse_700_500, r.pw_mm, r.shear_06_kt),
        !.vgp = vorticity_generation_parameter(r.srh_01, r.shear_01_kt),
        !.craven = craven_brooks(r.mlcape, r.shear_06_kt)]

Composites ==
    /\ Stage("composite", "boundary")
    /\ \/ /\ result' = WithComposites(result)
          /\ UNCHANGED failed
       \/ /\ UNCHANGED result
          /\ Raised("composite")

Boundary ==
    /\ Stage("boundary", "scoring")
    /\ \/ /\ has_grid
          /\ \E b \in BoundaryResults : result' = [result EXCEPT !.boundary = b]
          /\ UNCHANGED failed
       \/ /\ has_grid
          /\ UNCHANGED result
          /\ Raised("boundary")
       \/ /\ ~has_grid
          /\ result' = [result EXCEPT !.boundary = GridUnavailable]
          /\ UNCHANGED failed

\* variant: the call of _score_and_reason is missing
Scoring_missing ==
    /\ Stage("scoring", "done")
    /\ UNCHANGED <<result, failed>>

Scoring ==
    /\ Stage("scoring", "done")
    /\ result' = _score_and_reason(result)
    /\ UNCHANGED failed

Next ==
    \/ Start
    \/ Instability
    \/ LiftedIndex
    \/ LapseRates
    \/ Moisture
    \/ SurfaceHumidity
    \/ Kinematics
    \/ Composites
    \/ Boundary
    \/ Scoring

Spec == Init /\ [][Next]_vars

(***************************************************************************)
(* _score_and_reason on its own, over analyses drawn field by field        *)
(***************************************************************************)
ScoreCapeVals == {0, 99, 100, 300, 500, 501, 1500, 2000, 2500, 3000}

ScoreMucapeVals == {0, 199, 200}

ScoreShearVals == {0, 15, 20, 25, 30, 31, 40, 55}

ScoreStpVals == {0, 50, 51, 100, 200}

ScoreScpVals == {0, 200, 201, 400}

ScoreSrhVals == {20000, 20001}

\* the fields that only annotate, drawn together
Annotations ==
    {[mlcin |-> 0, ml_lcl_hgt |-> 1000, lapse_700_500 |-> 600, lapse_sfc_700 |-> 600,
      rh_sfc |-> 700, pw_mm |-> 250, ship |-> 0, shear_36_kt |-> 0, srh_03 |-> 0,
      craven |-> 0, ehi_01 |-> 0, vgp |-> 0, boundary |-> EmptyBoundary,
      notes |-> <<>>],
     [mlcin |-> -26, ml_lcl_hgt |-> 799, lapse_700_500 |-> 650, lapse_sfc_700 |-> 500,
      rh_sfc |-> 549, pw_mm |-> 400, ship |-> 99, shear_36_kt |-> 20, srh_03 |-> 9999,
      craven |-> 20000, ehi_01 |-> 100, vgp |-> 199, boundary |-> GridUnavailable,
      notes |-> <<>>],
     [mlcin |-> -76, ml_lcl_hgt |-> 1501, lapse_700_500 |-> 649, lapse_sfc_700 |-> 499,
      rh_sfc |-> 550, pw_mm |-> 401, ship |-> 100, shear_36_kt |-> 19, srh_03 |-> 10000,
      craven |-> 20001, ehi_01 |-> 249, vgp |-> 200, boundary |-> EmptyBoundary,
      notes |-> <<"Kinematic calculations incomplete">>],
     [mlcin |-> -201, ml_lcl_hgt |-> 2001, lapse_700_500 |-> 700, lapse_sfc_700 |-> 499,
      rh_sfc |-> 399, pw_mm |-> 401, ship |-> 100, shear_36_kt |-> 20, srh_03 |-> 10000,
      craven |-> 20001, ehi_01 |-> 250, vgp |-> 200,
      boundary |-> [has_keys |-> TRUE, boundary_detected |-> TRUE,
                    boundary_type |-> "Near Mesoscale Boundary",
                    max_gradient_k_per_100km |-> 45,
                    notes |-> <<"theta-e gradient nearby">>],
      notes |-> <<"CAPE calculation incomplete">>]}

ScoreInput(mlcape, mucape, shear, stp, scp, srh, a) ==
    [EnvironmentAnalysis EXCEPT
        !.mlcape = mlcape, !.mucape = mucape, !.shear_06_kt = shear,
        !.stp = stp, !.scp = scp, !.srh_01 = srh,
        !.mlcin = a.mlcin, !.ml_lcl_hgt = a.ml_lcl_hgt,
        !.lapse_700_500 = a.lapse_700_500, !.lapse_sfc_700 = a.lapse_sfc_700,
        !.rh_sfc = a.rh_sfc, !.pw_mm = a.pw_mm, !.ship = a.ship,
        !.shear_36_kt = a.shear_36_kt, !.srh_03 = a.srh_03, !.craven = a.craven,
        !.ehi_01 = a.ehi_01, !.vgp = a.vgp, !.boundary = a.boundary,
        !.notes = a.notes]

InitScore ==
    /\ s_pc = "call"
    /\ \E mlcape \in ScoreCapeVals, mucape \in ScoreMucapeVals,
          shear \in ScoreShearVals, stp \in ScoreStpVals, scp \in ScoreScpVals,
          srh \in ScoreSrhVals, a \in Annotations :
          s_in = ScoreInput(mlcape, mucape, shear, stp, scp, srh, a)
    /\ s_out = s_in
    /\ PipelineIdle /\ CapeIdle /\ FnIdle /\ RunIdle

ScoreCall ==
    /\ s_pc = "call"
    /\ s_out' = _score_and_reason(s_in)
    /\ s_pc' = "ret"
    /\ UNCHANGED <<s_in, pipeVars, capeVars, fnVars, runVars>>

NextScore == ScoreCall

SpecScore == InitScore /\ [][NextScore]_vars

(***************************************************************************)
(* compute_cape_cin layer by layer: the mixed-layer parcel's loop, then    *)
(* the most-unstable parcel's, then the returned dict                      *)
(***************************************************************************)
InitCape ==
    /\ c_pc = "ml"
    /\ c_layers \in [ml : LayerSeqs, mu : LayerSeqs]
    /\ c_i = 0 /\ c_cape = 0 /\ c_cin = 0
    /\ c_ml = <<0, 0>> /\ c_ret = NoDict
    /\ PipelineIdle /\ ScoreIdle /\ FnIdle /\ RunIdle

\* for i in range(len(p_above) - 1): one pass
CapeLayer ==
    /\ c_pc \in {"ml", "mu"}
    /\ c_i < Len(c_layers[c_pc])
    /\ LET s == LayerStep(c_cape, c_cin, c_layers[c_pc][c_i + 1]) IN
         /\ c_cape' = s[1]
         /\ c_cin' = s[2]
    /\ c_i' = c_i + 1
    /\ UNCHANGED <<c_pc, c_layers, c_ml, c_ret, pipeVars, scoreVars, fnVars, runVars>>

\* mlcape, mlcin = _cape_cin(...)
CapeMlReturn ==
    /\ c_pc = "ml"
    /\ c_i = Len(c_layers.ml)
    /\ c_ml' = <<c_cape, c_cin>>
    /\ c_pc' = "mu" /\ c_i' = 0 /\ c_cape' = 0 /\ c_cin' = 0
    /\ UNCHANGED <<c_layers, c_ret, pipeVars, scoreVars, fnVars, runVars>>

\* mucape, mucin = _cape_cin(...); return {...}
CapeReturn ==
    /\ c_pc = "mu"
    /\ c_i = Len(c_layers.mu)
    /\ \E pml \in MlParcels, pmu \in MuParcels :
          c_ret' = CapeCinDict(c_ml, <<c_cape, c_cin>>, LclOf(pml, pmu))
    /\ c_pc' = "ret"
    /\ UNCHANGED <<c_layers, c_i, c_cape, c_cin, c_ml, pipeVars, scoreVars, fnVars, runVars>>

NextCape == CapeLayer \/ CapeMlReturn \/ CapeReturn

SpecCape == InitCape /\ [][NextCape]_vars

(***************************************************************************)
(* The five gated composite functions called on drawn arguments            *)
(***************************************************************************)
InitComposite ==
    /\ f_pc = "call"
    /\ f_in \in [mucape : {0, 99, 100, 2000}, mlcape : {0, 99, 100, 2000},
                 eff_srh : {-5000, 0, 1, 15000}, srh_01 : {-5000, 0, 1, 15000},
                 shear_06_kt : {0, 9, 10, 11, 12, 40}, shear_01_kt : {0, 20},
                 ml_lcl_hgt : {800, 2500}, mlcin : {-250, -25},
                 mu_lcl_t_c : {-100, 50}, mid_lapse : {700}, pw : PwVals]
    /\ f_out = <<>>
    /\ PipelineIdle /\ ScoreIdle /\ CapeIdle /\ RunIdle

CompositeCall ==
    /\ f_pc = "call"
    /\ f_out' =
          [scp |-> supercell_composite(f_in.mucape, f_in.eff_srh, f_in.shear_06_kt),
           stp |-> significant_tornado_parameter(f_in.mlcape, f_in.ml_lcl_hgt,
                       f_in.srh_01, f_in.shear_06_kt, f_in.mlcin),
           ehi |-> energy_helicity_index(f_in.mlcape, f_in.srh_01),
           ship |-> significant_hail_parameter(f_in.mucape, f_in.mu_lcl_t_c,
                       f_in.mid_lapse, f_in.pw, f_in.shear_06_kt),
           vgp |-> vorticity_generation_parameter(f_in.srh_01, f_in.shear_01_kt)]
    /\ f_pc' = "ret"
    /\ UNCHANGED <<f_in, pipeVars, scoreVars, capeVars, runVars>>

SpecComposite == InitComposite /\ [][CompositeCall]_vars

(***************************************************************************)
(* bunkers_storm_motion called on drawn profiles: one with a level at      *)
(* 6 km, one whose levels straddle 6 km, one with a single level below it  *)
(***************************************************************************)
BunkersGrids ==
    {Heights(4), <<0, 1500, 3000, 9000>>, <<0, 2000, 4000, 7000>>,
     <<0, 7000, 8000, 9000>>}

InitBunkers ==
    /\ f_pc = "call"
    /\ f_in \in [h : BunkersGrids, u : [1..4 -> {0, 10, 30}], v : [1..4 -> {0, 10}]]
    /\ f_out = <<>>
    /\ PipelineIdle /\ ScoreIdle /\ CapeIdle /\ RunIdle

BunkersCall ==
    /\ f_pc = "call"
    /\ f_out' = bunkers_storm_motion(f_in.h, f_in.u, f_in.v)
    /\ f_pc' = "ret"
    /\ UNCHANGED <<f_in, pipeVars, scoreVars, capeVars, runVars>>

SpecBunkers == InitBunkers /\ [][BunkersCall]_vars

(***************************************************************************)
(* detect_boundaries called on drawn grids                                 *)
(***************************************************************************)
InitBoundary ==
    /\ f_pc = "call"
    /\ \E sp \in {1, 2} :
          f_in \in [te : [1..3 -> [1..GridCols -> {3300, 3380}]],
                    rows : {1, 3}, spacing : {sp},
                    target_lat : {0, 2 * sp, 2 * sp + 3}, target_lon : {0, sp}]
    /\ f_out = <<>>
    /\ PipelineIdle /\ ScoreIdle /\ CapeIdle /\ RunIdle

BoundaryCall ==
    /\ f_pc = "call"
    /\ f_out' = detect_boundaries(f_in)
    /\ f_pc' = "ret"
    /\ UNCHANGED <<f_in, pipeVars, scoreVars, capeVars, runVars>>

SpecBoundary == InitBoundary /\ [][BoundaryCall]_vars

(***************************************************************************)
(* The levels _cape_cin integrates over, for a profile stored bottom to    *)
(* top (pressure descending with the index) and a parcel at parcel_p; the  *)
(* loop visits the layers (p_above[i], p_above[i+1]) for i = 0, 1, ...     *)
(***************************************************************************)
Reverse(s) == [i \in 1..Len(s) |-> s[Len(s) + 1 - i]]

\* mask = p_hpa <= parcel_p; p_above = p_hpa[mask][::-1]
PAbove(p_hpa, parcel_p) ==
    LET Masked(x) == x <= parcel_p IN Reverse(SelectSeq(p_hpa, Masked))

BottomUpProfiles ==
    {p \in UNION {[1..n -> {1000, 925, 850, 700, 500, 300}] : n \in MinLevels..MaxLevels} :
        \A i \in 1..(Len(p) - 1) : p[i] > p[i + 1]}

InitLevels ==
    /\ f_pc = "loop"
    /\ f_in \in [p_hpa : BottomUpProfiles, parcel_p : {1000, 960, 850}]
    /\ f_out = <<>>
    /\ PipelineIdle /\ ScoreIdle /\ CapeIdle /\ RunIdle

\* one pass of the loop: the layer it integrates joins the layers visited
LayerVisit ==
    /\ f_pc = "loop"
    /\ LET p_above == PAbove(f_in.p_hpa, f_in.parcel_p)
           i == Len(f_out) + 1
       IN /\ i <= Len(p_above) - 1
          /\ f_out' = Append(f_out, <<p_above[i], p_above[i + 1]>>)
    /\ UNCHANGED <<f_pc, f_in, pipeVars, scoreVars, capeVars, runVars>>

\* return cape, cin (also the early return for fewer than two levels)
LoopReturn ==
    /\ f_pc = "loop"
    /\ Len(f_out) >= Len(PAbove(f_in.p_hpa, f_in.parcel_p)) - 1
    /\ f_pc' = "ret"
    /\ UNCHANGED <<f_in, f_out, pipeVars, scoreVars, capeVars, runVars>>

NextLevels == LayerVisit \/ LoopReturn

SpecLevels == InitLevels /\ [][NextLevels]_vars

(***************************************************************************)
(* run_analysis: every fetched profile is analysed in turn, then the       *)
(* analyses are filtered and rendered.  Lists and dicts are objects: a     *)
(* cell of r_heap each, and an analysis holds the cells' indices for       *)
(* fail_modes, notes, warnings and boundary, so that two analyses holding  *)
(* one object, and a write through one of them, are visible.               *)
(***************************************************************************)
MaxProfiles == 2

\* variant: the defaults are objects made once and handed to every instance
DefaultFactories_shared(heap) ==
    IF heap = <<>>
    THEN [ids |-> <<1, 2, 3, 4>>, heap |-> <<<<>>, <<>>, <<>>, EmptyBoundary>>]
    ELSE [ids |-> <<1, 2, 3, 4>>, heap |-> heap]

\* boundary: field(default_factory=dict); fail_modes, notes, warnings:
\* field(default_factory=list): four new objects per instance
DefaultFactories(heap) ==
    LET n == Len(heap) IN
    [ids |-> <<n + 1, n + 2, n + 3, n + 4>>,
     heap |-> heap \o <<<<>>, <<>>, <<>>, EmptyBoundary>>]

\* what the stages before scoring leave for a profile: the number of
\* levels, the fields they assigned and the notes they appended
RunProfiles ==
    {[nlev |-> 3, stage_notes |-> <<>>, fields |-> EnvironmentAnalysis],
     [nlev |-> 4, stage_notes |-> <<"CAPE calculation incomplete">>,
      fields |-> [EnvironmentAnalysis EXCEPT !.boundary = GridUnavailable]],
     [nlev |-> 4, stage_notes |-> <<>>,
      fields |-> [EnvironmentAnalysis EXCEPT
                     !.mlcape = 2000, !.mucape = 2000, !.shear_06_kt = 55,
                     !.stp = 100, !.scp = 400, !.srh_01 = 20001,
                     !.mlcin = -76, !.ml_lcl_hgt = 1501,
                     !.boundary = [has_keys |-> TRUE, boundary_detected |-> TRUE,
                                   boundary_type |-> "Near Mesoscale Boundary",
                                   max_gradient_k_per_100km |-> 45,
                                   notes |-> <<"theta-e gradient nearby">>]]],
     [nlev |-> 4, stage_notes |-> <<"Kinematic calculations incomplete">>,
      fields |-> [EnvironmentAnalysis EXCEPT
                     !.mlcape = 300, !.mucape = 300, !.mlcin = -26]]}

\* analyze_profile as a function of the profile alone
analyze_profile(prof) ==
    IF TooFewLevels(prof.nlev)
    THEN [EnvironmentAnalysis EXCEPT
             !.fail_modes = <<"Insufficient vertical levels">>]
    ELSE _score_and_reason([prof.fields EXCEPT !.notes = prof.stage_notes])

\* the scalar fields of an analysis, its objects being held by index
Scalars(r) ==
    [r EXCEPT !.fail_modes = <<>>, !.notes = <<>>, !.warnings = <<>>,
              !.boundary = EmptyBoundary]

\* the analysis a reader of a sees
Deref(a, heap) ==
    [a.fields EXCEPT !.fail_modes = heap[a.ids[1]], !.notes = heap[a.ids[2]],
                     !.warnings = heap[a.ids[3]], !.boundary = heap[a.ids[4]]]

InitRun ==
    /\ r_pc = "analyze"
    /\ r_opts \in [min_score : {0, 3}, show_notes : BOOLEAN]
    /\ r_profiles \in UNION {[1..n -> RunProfiles] : n \in 1..MaxProfiles}
    /\ r_heap = <<>>
    /\ r_analyses = <<>>
    /\ r_i = 0
    /\ PipelineIdle /\ ScoreIdle /\ CapeIdle /\ FnIdle

\* r = EnvironmentAnalysis(); the early return for too few levels
AnalyzeShort(prof, d) ==
    /\ r_heap' = [d.heap EXCEPT ![d.ids[1]] =
                      Append(@, "Insufficient vertical levels")]
    /\ r_analyses' = Append(r_analyses,
                            [fields |-> Scalars(EnvironmentAnalysis), ids |-> d.ids])

\* the stages append their notes and assign r.boundary; _score_and_reason
\* assigns one new list at the gate, three new lists after the cascade
AnalyzeFull(prof, d) ==
    LET h1 == [d.heap EXCEPT ![d.ids[2]] = @ \o prof.stage_notes]
        assigned == prof.fields.boundary # EmptyBoundary
        h2 == IF assigned THEN Append(h1, prof.fields.boundary) ELSE h1
        bid == IF assigned THEN Len(h2) ELSE d.ids[4]
        arg == [prof.fields EXCEPT
                   !.fail_modes = h2[d.ids[1]], !.notes = h2[d.ids[2]],
                   !.warnings = h2[d.ids[3]], !.boundary = h2[bid]]
        out == _score_and_reason(arg)
        n == Len(h2)
    IN IF InstabilityGate(arg)
       THEN /\ r_heap' = Append(h2, out.fail_modes)
            /\ r_analyses' = Append(r_analyses,
                   [fields |-> Scalars(out),
                    ids |-> <<n + 1, d.ids[2], d.ids[3], bid>>])
       ELSE /\ r_heap' = h2 \o <<out.fail_modes, out.notes, out.warnings>>
            /\ r_analyses' = Append(r_analyses,
                   [fields |-> Scalars(out),
                    ids |-> <<n + 1, n + 2, n + 3, bid>>])

\* a = await run.cpu_bound(analyze_profile, prof); analyses.append(a)
AnalyzeNext ==
    /\ r_pc = "analyze"
    /\ Len(r_analyses) < Len(r_profiles)
    /\ LET prof == r_profiles[Len(r_analyses) + 1]
           d == DefaultFactories(r_heap)
       IN IF TooFewLevels(prof.nlev) THEN AnalyzeShort(prof, d)
                                     ELSE AnalyzeFull(prof, d)
    /\ UNCHANGED <<r_pc, r_opts, r_profiles, r_i,
                   pipeVars, scoreVars, capeVars, fnVars>>

\* the analysis loop is over: the results are cleared and rendered
AnalyzeDone ==
    /\ r_pc = "analyze"
    /\ Len(r_analyses) = Len(r_profiles)
    /\ r_pc' = "render"
    /\ UNCHANGED <<r_opts, r_profiles, r_heap, r_analyses, r_i,
                   pipeVars, scoreVars, capeVars, fnVars>>

\* for a in analyses: skip below min_score; a.notes = [] when the notes
\* toggle is off; render_analysis_card(a) reads a
RenderNext ==
    /\ r_pc = "render"
    /\ r_i < Len(r_analyses)
    /\ r_i' = r_i + 1
    /\ LET a == r_analyses[r_i + 1] IN
       IF a.fields.support_score >= r_opts.min_score /\ ~r_opts.show_notes
       THEN /\ r_heap' = Append(r_heap, <<>>)
            /\ r_analyses' = [r_analyses EXCEPT
                                 ![r_i + 1].ids[2] = Len(r_heap) + 1]
       ELSE UNCHANGED <<r_heap, r_analyses>>
    /\ UNCHANGED <<r_pc, r_opts, r_profiles,
                   pipeVars, scoreVars, capeVars, fnVars>>

RenderDone ==
    /\ r_pc = "render"
    /\ r_i = Len(r_analyses)
    /\ r_pc' = "done"
    /\ UNCHANGED <<r_opts, r_profiles, r_heap, r_analyses, r_i,
                   pipeVars, scoreVars, capeVars, fnVars>>

NextRun == AnalyzeNext \/ AnalyzeDone \/ RenderNext \/ RenderDone

SpecRun == InitRun /\ [][NextRun]_vars

(***************************************************************************)
(* The loop of _cape_cin with its temperatures.  Pressures are hPa,        *)
(* temperatures K; the parcel temperature of a level is drawn as the       *)
(* environment's plus an excess.  math.log is tabulated in thousandths     *)
(* for the pressures of BottomUpProfiles.                                  *)
(***************************************************************************)
LnMilli ==
    [p \in {1000, 925, 850, 700, 500, 300} |->
        CASE p = 1000 -> 6908 [] p = 925 -> 6830 [] p = 850 -> 6745
          [] p = 700 -> 6551  [] p = 500 -> 6215 [] p = 300 -> 5704]

\* the environment of the drawn profiles, by pressure
EnvK ==
    [p \in {1000, 925, 850, 700, 500, 300} |->
        CASE p = 1000 -> 300 [] p = 925 -> 295 [] p = 850 -> 290
          [] p = 700 -> 280  [] p = 500 -> 260 [] p = 300 -> 230]

\* x[mask][::-1] for mask = p_hpa <= parcel_p
MaskedReversed(x, p_hpa, parcel_p) ==
    LET At(i) == p_hpa[i] <= parcel_p
        idx == SelectSeq([i \in 1..Len(p_hpa) |-> i], At)
    IN Reverse([k \in 1..Len(idx) |-> x[idx[k]]])

\* layer i of the loop: twice the mean temperatures, dz (m) from the
\* hypsometric formula with Rd/g = 29.26, contribution = b_mean * dz (J/kg)
LayerAt(p_above, env_k, t_parcel_k, i) ==
    LET te2 == env_k[i] + env_k[i + 1]
        tp2 == t_parcel_k[i] + t_parcel_k[i + 1]
        dz == (2926 * te2 * (LnMilli[p_above[i]] - LnMilli[p_above[i + 1]]))
                  \div 200000
    IN [excess2 |-> tp2 - te2, dz |-> dz,
        contribution |-> (981 * (tp2 - te2) * dz) \div (100 * te2)]

InitThickness ==
    /\ f_pc = "loop"
    /\ \E p \in BottomUpProfiles, pp \in {1000, 960, 850} :
          \E ex \in [1..Len(p) -> {-2, 2}] :
             f_in = [p_hpa |-> p, parcel_p |-> pp, excess |-> ex]
    /\ f_out = [cape |-> 0, cin |-> 0, layers |-> <<>>]
    /\ PipelineIdle /\ ScoreIdle /\ CapeIdle /\ RunIdle

\* one pass of the loop; the layer is kept with the sums it left
ThicknessLayer ==
    /\ f_pc = "loop"
    /\ LET p_above == PAbove(f_in.p_hpa, f_in.parcel_p)
           env_k == [k \in 1..Len(p_above) |-> EnvK[p_above[k]]]
           ex == MaskedReversed(f_in.excess, f_in.p_hpa, f_in.parcel_p)
           t_parcel_k == [k \in 1..Len(p_above) |-> env_k[k] + ex[k]]
           i == Len(f_out.layers) + 1
       IN /\ i <= Len(p_above) - 1
          /\ LET l == LayerAt(p_above, env_k, t_parcel_k, i)
                 s == LayerStep(f_out.cape, f_out.cin, l.contribution)
             IN f_out' = [cape |-> s[1], cin |-> s[2],
                          layers |-> Append(f_out.layers,
                              [excess2 |-> l.excess2, dz |-> l.dz,
                               cape_before |-> f_out.cape, cape_after |-> s[1],
                               cin_before |-> f_out.cin, cin_after |-> s[2]])]
    /\ UNCHANGED <<f_pc, f_in, pipeVars, scoreVars, capeVars, runVars>>

ThicknessReturn ==
    /\ f_pc = "loop"
    /\ Len(f_out.layers) >= Len(PAbove(f_in.p_hpa, f_in.parcel_p)) - 1
    /\ f_pc' = "ret"
    /\ UNCHANGED <<f_in, f_out, pipeVars, scoreVars, capeVars, runVars>>

NextThickness == ThicknessLayer \/ ThicknessReturn

SpecThickness == InitThickness /\ [][NextThickness]_vars

(***************************************************************************)
(* lift_parcel_moist.  Pressures are whole hPa, temperatures tenths of K.  *)
(* The Euler loop cools the parcel along the grid; the model gives every   *)
(* 5 hPa step the same cooling, the grid and the interpolation being what  *)
(* matters here.                                                           *)
(***************************************************************************)
\* np.arange(p0_hpa, stop, -5.0): p0, p0 - 5, ... while above stop
PFine(p0_hpa, stop) ==
    LET n == IF p0_hpa <= stop THEN 0 ELSE ((p0_hpa - stop - 1) \div 5) + 1
    IN [i \in 1..n |-> p0_hpa - 5 * (i - 1)]

\* variant: the grid runs to the lowest of the requested pressures
GridStop_lowest(p_levels_hpa) ==
    (CHOOSE p \in {p_levels_hpa[k] : k \in 1..Len(p_levels_hpa)} :
        \A k \in 1..Len(p_levels_hpa) : p <= p_levels_hpa[k]) - 1

\* p_levels_hpa[-1] - 1
GridStop(p_levels_hpa) == p_levels_hpa[Len(p_levels_hpa)] - 1

lift_parcel_moist(t0_k, p0_hpa, p_levels_hpa) ==
    LET p_fine == PFine(p0_hpa, GridStop(p_levels_hpa))
        t_parcel == [i \in 1..Len(p_fine) |-> t0_k - 3 * (i - 1)]
    IN [p_fine |-> p_fine,
        result |-> [k \in 1..Len(p_levels_hpa) |->
                       Interp(p_levels_hpa[k], Reverse(p_fine), Reverse(t_parcel))]]

\* the requested levels: one to three distinct pressures at or below the
\* start pressure, in any order
InitLift ==
    /\ f_pc = "call"
    /\ \E p0 \in {900, 850, 802} :
       \E lv \in UNION {[1..n -> {850, 700, 500, 300}] : n \in 1..3} :
          /\ \A i, j \in 1..Len(lv) : (i # j => lv[i] # lv[j]) /\ lv[i] <= p0
          /\ f_in = [t0_k |-> 2900, p0_hpa |-> p0, p_levels_hpa |-> lv]
    /\ f_out = <<>>
    /\ PipelineIdle /\ ScoreIdle /\ CapeIdle /\ RunIdle

LiftCall ==
    /\ f_pc = "call"
    /\ f_out' = lift_parcel_moist(f_in.t0_k, f_in.p0_hpa, f_in.p_levels_hpa)
    /\ f_pc' = "ret"
    /\ UNCHANGED <<f_in, pipeVars, scoreVars, capeVars, runVars>>

SpecLift == InitLift /\ [][LiftCall]_vars

(***************************************************************************)
(* compute_cape_cin: the choice of the two parcels.  The profile is stored *)
(* bottom to top with its lowest level at 1000 hPa, as both fetchers build *)
(* it; p_sfc is the surface pressure the caller passes.  Temperatures are  *)
(* K by pressure (EnvK), the dewpoint 5 K below, theta-e is drawn per      *)
(* level.  Means are truncated to the unit.                                *)
(***************************************************************************)
RECURSIVE SeqSum(_)
SeqSum(s) == IF s = <<>> THEN 0 ELSE s[1] + SeqSum(Tail(s))

\* the indices of mask = p_hpa >= (p_sfc - depth), in profile order
LayerMask(p_hpa, p_sfc, depth) ==
    LET In(i) == p_hpa[i] >= p_sfc - depth
    IN SelectSeq([i \in 1..Len(p_hpa) |-> i], In)

\* float(np.mean(x[mask]))
MaskMean(x, mask) == SeqSum([k \in 1..Len(mask) |-> x[mask[k]]]) \div Len(mask)

\* np.where(mu_mask)[0][int(np.argmax(theta_e_vals))]: the first maximum
MostUnstableIndex(theta_e_vals, mu_mask) ==
    LET k == CHOOSE k \in 1..Len(mu_mask) :
                 /\ \A j \in 1..Len(mu_mask) :
                       theta_e_vals[mu_mask[j]] <= theta_e_vals[mu_mask[k]]
                 /\ \A j \in 1..(k - 1) :
                       theta_e_vals[mu_mask[j]] < theta_e_vals[mu_mask[k]]
    IN mu_mask[k]

Parcels(p_hpa, t_k, td_k, theta_e_vals, p_sfc) ==
    LET ml_mask == LayerMask(p_hpa, p_sfc, 100)
        mu_idx == MostUnstableIndex(theta_e_vals, LayerMask(p_hpa, p_sfc, 300))
    IN [ml_levels |-> {ml_mask[k] : k \in 1..Len(ml_mask)},
        t_ml |-> MaskMean(t_k, ml_mask), td_ml |-> MaskMean(td_k, ml_mask),
        p_ml |-> MaskMean(p_hpa, ml_mask),
        mu_idx |-> mu_idx, p_mu |-> p_hpa[mu_idx]]

InitParcels ==
    /\ f_pc = "call"
    /\ \E p \in {q \in BottomUpProfiles : q[1] = 1000}, ps \in {1013, 1000, 900, 850} :
       \E th \in [1..Len(p) -> {330, 340}] :
          f_in = [p_hpa |-> p, p_sfc |-> ps, theta_e_vals |-> th]
    /\ f_out = <<>>
    /\ PipelineIdle /\ ScoreIdle /\ CapeIdle /\ RunIdle

ParcelsCall ==
    /\ f_pc = "call"
    /\ f_out' = Parcels(f_in.p_hpa,
                        [i \in 1..Len(f_in.p_hpa) |-> EnvK[f_in.p_hpa[i]]],
                        [i \in 1..Len(f_in.p_hpa) |-> EnvK[f_in.p_hpa[i]] - 5],
                        f_in.theta_e_vals, f_in.p_sfc)
    /\ f_pc' = "ret"
    /\ UNCHANGED <<f_in, pipeVars, scoreVars, capeVars, runVars>>

SpecParcels == InitParcels /\ [][ParcelsCall]_vars

(***************************************************************************)
(* compute_srh on its own: winds in kt on the grid of Heights(4), storm    *)
(* motion in tenths of kt, three band tops                                 *)
(***************************************************************************)
InitSrh ==
    /\ f_pc = "call"
    /\ f_in \in [u : [1..4 -> {-10, 0, 10}], v : [1..4 -> {0, 10}],
                 storm : {<<0, 0>>, <<50, -50>>}, layer_top_m : {500, 1000, 3000}]
    /\ f_out = <<>>
    /\ PipelineIdle /\ ScoreIdle /\ CapeIdle /\ RunIdle

SrhCall ==
    /\ f_pc = "call"
    /\ f_out' = [srh |-> compute_srh(Heights(4), f_in.u, f_in.v,
                                     f_in.storm[1], f_in.storm[2], f_in.layer_top_m)]
    /\ f_pc' = "ret"
    /\ UNCHANGED <<f_in, pipeVars, scoreVars, capeVars, runVars>>

SpecSrh == InitSrh /\ [][SrhCall]_vars

(***************************************************************************)
(* fetch_profiles: the fallback chain.  Whether a forecast step can be     *)
(* fetched, what the Open-Meteo request returns and which of its hours can *)
(* be built into a profile are the network's choice.  f_out.log keeps the  *)
(* outcome of every step asked of a source, f_out.tried the sources in the *)
(* order of their progress messages.  A profile is its source and step.    *)
(***************************************************************************)
MaxHours == 3

\* variant: NAM is asked before HRRR
FetchChain_nam_first ==
    << [model |-> "NAM", max_fxx |-> 60], [model |-> "HRRR", max_fxx |-> 18],
       [model |-> "GFS", max_fxx |-> 120] >>

\* for model, max_fxx in [("HRRR", 18), ("NAM", 60), ("GFS", 120)]
FetchChain ==
    << [model |-> "HRRR", max_fxx |-> 18], [model |-> "NAM", max_fxx |-> 60],
       [model |-> "GFS", max_fxx |-> 120] >>

InitFetch ==
    /\ f_pc = "fetch"
    /\ f_in \in [herbie : BOOLEAN, forecast_hours : {0, 6, 24}]
    /\ f_out = [k |-> 0, profiles |-> <<>>, log |-> <<>>, tried |-> <<>>]
    /\ PipelineIdle /\ ScoreIdle /\ CapeIdle /\ RunIdle

\* if _herbie_available(): enter the loop over the models, else fall back
HerbieCheck ==
    /\ f_pc = "fetch" /\ f_out.k = 0
    /\ f_out' = IF f_in.herbie
                THEN [f_out EXCEPT !.k = 1, !.tried = <<FetchChain[1].model>>]
                ELSE [f_out EXCEPT !.k = Len(FetchChain) + 1,
                                   !.tried = <<"Open-Meteo">>]
    /\ UNCHANGED <<f_pc, f_in, pipeVars, scoreVars, capeVars, runVars>>

\* one pass of the inner loop: prof = _fetch_herbie(lat, lon, model, fxx);
\* None breaks the loop and the next source is tried with profiles = []
GridStep ==
    /\ f_pc = "fetch" /\ f_out.k \in 1..Len(FetchChain)
    /\ LET m == FetchChain[f_out.k]
           fxx == 3 * Len(f_out.profiles)
           next == IF f_out.k < Len(FetchChain)
                   THEN FetchChain[f_out.k + 1].model ELSE "Open-Meteo"
       IN /\ fxx <= Min(f_in.forecast_hours, m.max_fxx)
          /\ \E ok \in BOOLEAN :
                f_out' =
                  IF ok
                  THEN [f_out EXCEPT
                          !.profiles = Append(@, [source |-> m.model, fxx |-> fxx]),
                          !.log = Append(@, [source |-> m.model, fxx |-> fxx,
                                             ok |-> TRUE])]
                  ELSE [f_out EXCEPT
                          !.profiles = <<>>, !.k = @ + 1,
                          !.tried = Append(@, next),
                          !.log = Append(@, [source |-> m.model, fxx |-> fxx,
                                             ok |-> FALSE])]
    /\ UNCHANGED <<f_pc, f_in, pipeVars, scoreVars, capeVars, runVars>>

\* if not failed and profiles: return profiles, model
GridReturn ==
    /\ f_pc = "fetch" /\ f_out.k \in 1..Len(FetchChain)
    /\ LET m == FetchChain[f_out.k] IN
       /\ 3 * Len(f_out.profiles) > Min(f_in.forecast_hours, m.max_fxx)
       /\ f_out.profiles # <<>>
       /\ f_out' = [k |-> f_out.k, log |-> f_out.log, tried |-> f_out.tried,
                    profiles |-> f_out.profiles, label |-> m.model]
    /\ f_pc' = "ret"
    /\ UNCHANGED <<f_in, pipeVars, scoreVars, capeVars, runVars>>

\* profiles = _fetch_open_meteo(...): None when the request fails, else the
\* hours of times[:forecast_hours] that could be built, None when none
OpenMeteo ==
    /\ f_pc = "fetch" /\ f_out.k = Len(FetchChain) + 1
    /\ \/ f_out' = [k |-> f_out.k, tried |-> f_out.tried, profiles |-> <<>>,
                    label |-> "None",
                    log |-> Append(f_out.log, [source |-> "Open-Meteo",
                                               fxx |-> -1, ok |-> FALSE])]
       \/ \E times \in 0..MaxHours :
          \E built \in SUBSET (1..Min(times, f_in.forecast_hours)) :
             LET n == Min(times, f_in.forecast_hours)
                 Built(h) == h \in built
                 hours == SelectSeq([h \in 1..n |-> h], Built)
             IN f_out' =
                  [k |-> f_out.k, tried |-> f_out.tried,
                   profiles |-> [i \in 1..Len(hours) |->
                                    [source |-> "Open-Meteo", fxx |-> hours[i]]],
                   label |-> IF hours # <<>> THEN "Open-Meteo" ELSE "None",
                   log |-> f_out.log \o
                           [h \in 1..n |-> [source |-> "Open-Meteo", fxx |-> h,
                                            ok |-> h \in built]]]
    /\ f_pc' = "ret"
    /\ UNCHANGED <<f_in, pipeVars, scoreVars, capeVars, runVars>>

NextFetch == HerbieCheck \/ GridStep \/ GridReturn \/ OpenMeteo

SpecFetch == InitFetch /\ [][NextFetch]_vars

(***************************************************************************)
(* Claims                                                                  *)
(***************************************************************************)
Calm == winds # NoWinds /\ \A i \in 1..Len(winds.u) : winds.u[i] = 0 /\ winds.v[i] = 0

\* C1: a profile with fewer than 4 levels enters no stage, and what is returned
\* is the default analysis with the single fail mode about the vertical levels
\* (so the mode is "No Convective Threat", the score 0 and notes, warnings empty).
C1_TooFewLevels ==
    nlev < 4 =>
        /\ attempted = <<>>
        /\ pc = "done" =>
              /\ result = [EnvironmentAnalysis EXCEPT
                              !.fail_modes = <<"Insufficient vertical levels">>]
              /\ Len(result.fail_modes) = 1
              /\ result.convective_mode = "No Convective Threat"
              /\ result.notes = <<>> /\ result.warnings = <<>>

C1_Witness == pc = "done" /\ nlev = 3 /\ Len(result.fail_modes) = 1

\* the note that records the failure of a stage; the code has a text for two stages
NotesRecording(stage) ==
    IF stage = "instability" THEN {"CAPE calculation incomplete"}
    ELSE IF stage = "kinematics" THEN {"Kinematic calculations incomplete"}
    ELSE {}

\* C2: in the returned analysis, every stage that failed has a note recording it.
C2_EveryFailureNoted ==
    pc = "done" =>
        \A stage \in failed :
            \E i \in 1..Len(result.notes) : result.notes[i] \in NotesRecording(stage)

LadderModes ==
    {"Significant Tornadic Supercells", "Tornadic Supercells",
     "Supercells / Tornado Possible", "Significant Supercell Environment",
     "Supercellular", "QLCS / Embedded Supercells", "Organized Multicells / QLCS",
     "Multicell Clusters", "Pulse / Single Cell"}

\* C3: when MLCAPE < 100 and MUCAPE < 200 the call only sets the mode to
\* "No Convective Threat", the score to 0 and fail_modes to one entry (notes,
\* warnings and every other field stay as passed); otherwise the later rules
\* are all evaluated: the mode comes from the ladder and each rule whose
\* condition holds has left its entry.
C3_GateTerminal ==
    s_pc = "ret" =>
        IF s_in.mlcape < 100 /\ s_in.mucape < 200
        THEN /\ s_out = [s_in EXCEPT !.convective_mode = "No Convective Threat",
                                     !.fail_modes = <<"Insufficient instability">>,
                                     !.support_score = 0, !.support_label = "None",
                                     !.support_color = "grey",
                                     !.support_emoji = "black"]
             /\ Len(s_out.fail_modes) = 1
             /\ s_out.notes = s_in.notes /\ s_out.warnings = s_in.warnings
        ELSE /\ s_out.convective_mode \in LadderModes
             /\ s_in.mlcin < -200 => Mem(s_out.fail_modes, "Extreme cap")
             /\ s_in.ml_lcl_hgt > 2000 => Mem(s_out.fail_modes, "High LCL")
             /\ s_in.lapse_700_500 >= 700 =>
                    Mem(s_out.warnings, "Very steep 700-500 hPa lapse rate")
             /\ s_in.rh_sfc < 400 => Mem(s_out.fail_modes, "Very dry boundary layer")
             /\ s_in.pw_mm > 400 => Mem(s_out.notes, "Very high precipitable water")
             /\ (s_in.shear_06_kt < 15 /\ s_in.mlcape > 1500) =>
                    Mem(s_out.fail_modes, "Weak deep-layer shear (outflow dominant)")
             /\ (s_in.mlcape > 2500 /\ s_in.shear_06_kt < 25) =>
                    Mem(s_out.fail_modes, "Very high CAPE + weak shear (dominant outflow)")
             /\ s_in.ehi_01 >= 250 => Mem(s_out.warnings, "EHI(0-1km) >= 2.5")
             /\ s_in.vgp >= 200 => Mem(s_out.notes, "VGP >= 0.2")
             /\ s_in.boundary.boundary_detected =>
                    Mem(s_out.notes, "Mesoscale boundary nearby")
             /\ (s_in.mlcape > 1500 /\ s_in.shear_06_kt > 30) => s_out.support_score >= 3

C3_Witness ==
    /\ s_pc = "ret"
    /\ s_in.mlcape = 99 /\ s_in.mucape = 199
    /\ s_in.shear_06_kt = 55 /\ s_in.stp = 200 /\ s_in.mlcin = -201
    /\ s_in.notes # <<>>
    /\ s_out.convective_mode = "No Convective Threat"

\* C4: MLCAPE and MUCAPE of the analysis are never negative, whatever the signs
\* of the layer contributions.
C4_CapeFloor == result.mlcape >= 0 /\ result.mucape >= 0

C4_Witness ==
    /\ pc = "done" /\ "instability" \notin failed /\ nlev >= 4
    /\ result.mlcin < 0 /\ result.mlcape = 0

\* C5: a pass of the integration loop changes CIN only if the cumulative CAPE
\* is still zero before it (and the layer is not positive); once CAPE is
\* positive no pass changes CIN.
C5_CinOnlyWhileCapeZero ==
    [][c_i' = c_i + 1 =>
          /\ c_cape > 0 => c_cin' = c_cin
          /\ c_cin' # c_cin => (c_cape = 0 /\ c_layers[c_pc][c_i + 1] < 0)]_vars

C5_Witness ==
    /\ c_pc = "ml" /\ c_i = 3
    /\ c_layers.ml[1] < 0 /\ c_layers.ml[2] > 0 /\ c_layers.ml[3] < 0
    /\ c_cape = c_layers.ml[2] /\ c_cin = c_layers.ml[1]

\* C6 as stated: computed MLCAPE 0 and calm winds give score 0, "No Convective
\* Threat" and the single "Insufficient instability" fail mode.
C6_Original ==
    (/\ pc = "done" /\ nlev >= 4 /\ "instability" \notin failed
     /\ result.mlcape = 0 /\ Calm)
    => /\ result.support_score = 0
       /\ result.convective_mode = "No Convective Threat"
       /\ result.fail_modes = <<"Insufficient instability">>

\* C6 amended: the same when, in addition, MUCAPE is below 200 J/kg.
C6_CalmStable ==
    (/\ pc = "done" /\ nlev >= 4 /\ "instability" \notin failed
     /\ result.mlcape = 0 /\ result.mucape < 200 /\ Calm)
    => /\ result.support_score = 0
       /\ result.convective_mode = "No Convective Threat"
       /\ result.fail_modes = <<"Insufficient instability">>

C6_Witness ==
    /\ pc = "done" /\ nlev >= 4 /\ failed = {}
    /\ result.mlcape = 0 /\ result.mucape < 200 /\ Calm
    /\ result.mlcin < 0
    /\ result.convective_mode = "No Convective Threat"

\* C7: MLCAPE >= 500, 0-6 km shear >= 40 kt and STP >= 1.0 give one of the two
\* tornadic-supercell modes, whatever SCP, SHIP, CIN and the rest are.
C7_TornadicTier ==
    (s_pc = "ret" /\ s_in.mlcape >= 500 /\ s_in.shear_06_kt >= 40 /\ s_in.stp >= 100)
    => s_out.convective_mode \in
           {"Significant Tornadic Supercells", "Tornadic Supercells"}

C7_Witness ==
    /\ s_pc = "ret"
    /\ s_in.mlcape = 2000 /\ s_in.shear_06_kt = 55 /\ s_in.stp = 100
    /\ s_in.scp = 400 /\ s_in.ship = 100 /\ s_in.mlcin = -201
    /\ s_out.convective_mode = "Tornadic Supercells"

\* C8: MLCAPE > 2500 with 0-6 km shear < 25 kt always leaves the
\* outflow-dominance entry in fail_modes.
C8_OutflowDominance ==
    (s_pc = "ret" /\ s_in.mlcape > 2500 /\ s_in.shear_06_kt < 25)
    => Mem(s_out.fail_modes, "Very high CAPE + weak shear (dominant outflow)")

C8_Witness ==
    /\ s_pc = "ret" /\ s_in.mlcape = 3000 /\ s_in.shear_06_kt = 15
    /\ Mem(s_out.fail_modes, "Very high CAPE + weak shear (dominant outflow)")
    /\ s_out.convective_mode = "Pulse / Single Cell"

\* C9: with every other input fixed, raising MLCAPE never lowers the support
\* score, and raising the 0-6 km shear never lowers it.
C9_ScoreMonotone ==
    s_pc = "ret" =>
        /\ \A m \in ScoreCapeVals :
              m >= s_in.mlcape =>
                  _score_and_reason([s_in EXCEPT !.mlcape = m]).support_score
                      >= s_out.support_score
        /\ \A k \in ScoreShearVals :
              k >= s_in.shear_06_kt =>
                  _score_and_reason([s_in EXCEPT !.shear_06_kt = k]).support_score
                      >= s_out.support_score

C9_Witness ==
    /\ s_pc = "ret"
    /\ s_in.mlcape = 99 /\ s_in.mucape = 0 /\ s_in.shear_06_kt = 31
    /\ s_out.support_score = 0
    /\ _score_and_reason([s_in EXCEPT !.mlcape = 3000]).support_score >= 3

\* C10: past the gate the score is the number of satisfied increments, lies in
\* 0..5, and label, colour and symbol are the table row of that score.
C10_ScoreIsCount ==
    (s_pc = "ret" /\ ~(s_in.mlcape < 100 /\ s_in.mucape < 200)) =>
        LET n == (IF s_in.mlcape > 500 THEN 1 ELSE 0)
                 + (IF s_in.mlcape > 1500 THEN 1 ELSE 0)
                 + (IF s_in.shear_06_kt > 30 THEN 1 ELSE 0)
                 + (IF s_in.scp > 200 \/ s_in.stp > 50 THEN 1 ELSE 0)
                 + (IF s_in.srh_01 > 20000 /\ s_in.stp >= 100 THEN 1 ELSE 0)
            labels == <<"None", "Marginal", "Limited", "Moderate", "Enhanced", "Extreme">>
            colors == <<"grey", "blue", "green", "yellow", "orange", "red">>
        IN /\ s_out.support_score = n
           /\ s_out.support_score \in 0..5
           /\ s_out.support_label = labels[n + 1]
           /\ s_out.support_color = colors[n + 1]
           /\ s_out.support_emoji = SUPPORT_LEVELS[n + 1].emoji

C10_Witness ==
    /\ s_pc = "ret" /\ s_out.support_score = 5 /\ s_out.support_label = "Extreme"
    /\ s_in.scp = 0

\* C11: each gated composite is exactly zero whenever its gate condition
\* fails: SCP (MUCAPE < 100, effective SRH <= 0 or shear < 10), STP (MLCAPE <
\* 100, 0-1 km SRH <= 0 or shear < 12), EHI (CAPE < 100 or SRH <= 0), SHIP
\* (MUCAPE < 100), VGP (0-1 km SRH <= 0 or 0-1 km shear <= 0).
C11_GatedCompositesZero ==
    (f_pc = "ret" /\ "scp" \in DOMAIN f_out) =>
        /\ (f_in.mucape < 100 \/ f_in.eff_srh <= 0 \/ f_in.shear_06_kt < 10)
               => f_out.scp = 0
        /\ (f_in.mlcape < 100 \/ f_in.srh_01 <= 0 \/ f_in.shear_06_kt < 12)
               => f_out.stp = 0
        /\ (f_in.mlcape < 100 \/ f_in.srh_01 <= 0) => f_out.ehi = 0
        /\ f_in.mucape < 100 => f_out.ship = 0
        /\ (f_in.srh_01 <= 0 \/ f_in.shear_01_kt <= 0) => f_out.vgp = 0

\* SCP is gated by the shear alone while STP, one knot of shear further, and
\* SHIP are not
C11_Witness ==
    /\ f_pc = "ret" /\ "scp" \in DOMAIN f_out
    /\ f_in.mucape = 2000 /\ f_in.eff_srh = 15000 /\ f_in.shear_06_kt = 9
    /\ f_out.scp = 0 /\ f_out.ship > 0
    /\ f_in.srh_01 = -5000 /\ f_out.stp = 0 /\ f_out.vgp = 0

Abs(x) == IF x < 0 THEN 0 - x ELSE x

\* the 0-6 km shear vector as bulk_shear(0, 6000) forms it, tenths of kt
Shear06U == Interp(6000, f_in.h, Tenths(f_in.u)) - Interp(0, f_in.h, Tenths(f_in.u))

Shear06V == Interp(6000, f_in.h, Tenths(f_in.v)) - Interp(0, f_in.h, Tenths(f_in.v))

\* right-mover minus left-mover has length 2 * 14.6 kt, is perpendicular to
\* the vector (su, sv) and lies clockwise of it, and the movers are symmetric
\* about the mean wind; the margins are those of the truncated quotients
BunkersGeometry(su, sv) ==
    LET dx == f_out.rm_u - f_out.lm_u
        dy == f_out.rm_v - f_out.lm_v
    IN /\ dx * dx + dy * dy >= 288 * 288
       /\ dx * dx + dy * dy <= 296 * 296
       /\ Abs(dx * su + dy * sv) <= 2 * (Abs(su) + Abs(sv))
       /\ su * dy - sv * dx < 0
       /\ f_out.rm_u + f_out.lm_u = 2 * f_out.mean_u
       /\ f_out.rm_v + f_out.lm_v = 2 * f_out.mean_v

\* C12: whenever the 0-6 km shear vector is at least 0.5 kt long, the
\* right-mover minus left-mover vector is twice the 14.6 kt deviation long,
\* perpendicular to the 0-6 km shear vector with the right-mover clockwise of
\* it, and the two movers are symmetric about the mean wind.
C12_BunkersGeometry ==
    (/\ f_pc = "ret" /\ "rm_u" \in DOMAIN f_out
     /\ Shear06U * Shear06U + Shear06V * Shear06V >= 25)
    => BunkersGeometry(Shear06U, Shear06V)

\* C13: detect_boundaries returns (it does not raise) boundary_detected =
\* FALSE and type "None" whenever the target has no grid coverage or every
\* cell of the search window has a gradient below 3 K per 100 km; on a
\* uniform grid it returns FALSE and a maximum gradient of 0.
C13_NoBoundary ==
    (f_pc = "ret" /\ "boundary_detected" \in DOMAIN f_out) =>
        LET g == f_in
            lat(i) == (i - 1) * g.spacing
            far(n, t) == \A i \in 1..n : Abs(lat(i) - t) > 2
            near(n, t, i) == \A k \in 1..n : Abs(lat(i) - t) <= Abs(lat(k) - t)
            window == {c \in (1..g.rows) \X (1..GridCols) :
                          \E it \in 1..g.rows, jt \in 1..GridCols :
                              /\ near(g.rows, g.target_lat, it)
                              /\ near(GridCols, g.target_lon, jt)
                              /\ Abs(c[1] - it) * g.spacing <= 2
                              /\ Abs(c[2] - jt) * g.spacing <= 2}
            below == g.rows = 3 /\ \A c \in window :
                         25 * GradSq(g, c[1], c[2]) < (333 * g.spacing) * (333 * g.spacing)
            uniform == \A i \in 1..g.rows, j \in 1..GridCols : g.te[i][j] = g.te[1][1]
        IN /\ (far(g.rows, g.target_lat) \/ far(GridCols, g.target_lon) \/ below)
              => (~f_out.boundary_detected /\ f_out.boundary_type = "None")
           /\ uniform => /\ ~f_out.boundary_detected
                         /\ f_out.max_gradient_k_per_100km = 0

\* a gradient above the threshold lies on the grid but outside the window,
\* and one below it inside
C13_Witness ==
    /\ f_pc = "ret" /\ "boundary_detected" \in DOMAIN f_out
    /\ f_in.rows = 3 /\ f_in.spacing = 2 /\ f_in.target_lat = 0
    /\ \E j \in 1..GridCols : AtThreshold(GradSq(f_in, 3, j), 2)
    /\ f_out.max_gradient_k_per_100km > 0
    /\ ~f_out.boundary_detected

\* how often the scoring step was entered
ScoringRuns == Cardinality({i \in 1..Len(attempted) : attempted[i] = "scoring"})

\* the terminal classification _score_and_reason leaves: the gate's single
\* fail mode, or a mode of the ladder
Classified ==
    \/ /\ result.convective_mode = "No Convective Threat"
       /\ result.fail_modes = <<"Insufficient instability">>
    \/ result.convective_mode \in LadderModes

AllStages ==
    {"instability", "li", "lapse", "moisture", "rh", "kinematics", "composite",
     "boundary"}

\* C14 as stated: whatever the profile, the scoring step has run exactly once
\* when analyze_profile returns.
C14_Original == pc = "done" => (ScoringRuns = 1 /\ Classified)

\* C14 amended: for a profile with at least 4 levels, whichever stages failed,
\* the scoring step runs exactly once, as the last step, and leaves the
\* terminal classification, none being assigned before it; for fewer than 4
\* levels it does not run.
C14_ScoringOnce ==
    /\ (pc = "done" /\ nlev >= 4) =>
           /\ ScoringRuns = 1
           /\ attempted[Len(attempted)] = "scoring"
           /\ Classified
    /\ pc # "done" =>
           /\ ScoringRuns = 0
           /\ result.convective_mode = "No Convective Threat"
           /\ result.fail_modes = <<>>
           /\ result.support_score = 0
    /\ (pc = "done" /\ nlev < 4) => ScoringRuns = 0

C14_Witness ==
    /\ pc = "done" /\ nlev >= 4 /\ failed = AllStages
    /\ ScoringRuns = 1 /\ Classified

\* C15: the analysis returned has every field populated: the boundary
\* sub-record carries its boundary_detected, boundary_type and max-gradient
\* entries, the mode is one of the ten labels and the score lies in 0..5.
C15_AllPopulated ==
    pc = "done" =>
        /\ result.boundary.has_keys
        /\ result.boundary.boundary_detected \in BOOLEAN
        /\ result.convective_mode \in LadderModes \cup {"No Convective Threat"}
        /\ result.support_score \in 0..5

\* the boundary stage was skipped cleanly and the sub-record says so
SkippedWithNote ==
    /\ "boundary" \notin failed
    /\ result.boundary.has_keys
    /\ ~result.boundary.boundary_detected
    /\ Mem(result.boundary.notes, "Grid data unavailable; boundary detection skipped")

C19_ModeLadder ==
    (s_pc = "ret" /\ ~(s_in.mlcape < 100 /\ s_in.mucape < 200)) =>
        LET sh == s_in.shear_06_kt
            cape == s_in.mlcape
            stp == s_in.stp
            top == sh >= 40 /\ cape >= 500
            mid == ~top /\ sh >= 30 /\ cape >= 500
            low == ~top /\ ~mid /\ sh >= 20 /\ cape >= 300
            rot == s_in.shear_36_kt >= 20 /\ s_in.srh_03 >= 10000
            m == s_out.convective_mode
        IN /\ (top /\ stp >= 200) => m = "Significant Tornadic Supercells"
           /\ (top /\ stp >= 100 /\ stp < 200) => m = "Tornadic Supercells"
           /\ (top /\ stp >= 50 /\ stp < 100) => m = "Supercells / Tornado Possible"
           /\ (top /\ stp < 50 /\ s_in.scp >= 400)
                  => m = "Significant Supercell Environment"
           /\ (top /\ stp < 50 /\ s_in.scp < 400) => m = "Supercellular"
           /\ (mid /\ rot) => m = "QLCS / Embedded Supercells"
           /\ (mid /\ ~rot) => m = "Organized Multicells / QLCS"
           /\ low => m = "Multicell Clusters"
           /\ (~top /\ ~mid /\ ~low) => m = "Pulse / Single Cell"

\* the STP tier wins although the SCP tier matches too
C19_Witness ==
    /\ s_pc = "ret"
    /\ s_in.mlcape = 500 /\ s_in.shear_06_kt = 40
    /\ s_in.stp = 50 /\ s_in.scp = 400
    /\ s_out.convective_mode = "Supercells / Tornado Possible"

\* C20: for a profile stored bottom to top, the integration visits the layers
\* above the parcel origin from the bottom up: the first layer starts at the
\* level nearest the parcel origin, each layer runs from a higher to a lower
\* pressure, and each starts where the one before ended.
C20_BottomUp ==
    (f_pc \in {"loop", "ret"} /\ "p_hpa" \in DOMAIN f_in) =>
        \A k \in 1..Len(f_out) :
            /\ f_out[k][1] > f_out[k][2]
            /\ k = 1 => \A i \in 1..Len(f_in.p_hpa) :
                            f_in.p_hpa[i] <= f_in.parcel_p => f_in.p_hpa[i] <= f_out[1][1]
            /\ k > 1 => f_out[k][1] = f_out[k - 1][2]

\* C17: once analyze_profile has returned an analysis, no later step of
\* the program writes to any of its fields: in every step each analysis
\* already returned keeps its objects, and the objects keep their contents.
C17_NeverMutated ==
    [][\A k \in 1..Len(r_analyses) :
          /\ r_analyses'[k] = r_analyses[k]
          /\ Deref(r_analyses'[k], r_heap') = Deref(r_analyses[k], r_heap)]_vars

\* the list and dict objects an analysis holds
Objects(a) == {a.ids[j] : j \in 1..4}

\* C18: analysing a sequence of profiles is stateless.  Every analysis
\* returned is the function analyze_profile of its own profile, whatever
\* was analysed before it; an analysis holds four distinct objects and no
\* object is held by two analyses; and no step changes the profiles.
C18_ReturnedAsAlone ==
    /\ r_pc = "analyze" =>
          \A k \in 1..Len(r_analyses) :
              Deref(r_analyses[k], r_heap) = analyze_profile(r_profiles[k])
    /\ \A k \in 1..Len(r_analyses) :
          /\ Cardinality(Objects(r_analyses[k])) = 4
          /\ \A m \in 1..Len(r_analyses) :
                m # k => Objects(r_analyses[k]) \cap Objects(r_analyses[m]) = {}

C18_Stateless == []C18_ReturnedAsAlone /\ [][r_profiles' = r_profiles]_vars

\* two profiles analysed one after the other, each analysis with an entry
\* in fail_modes, the second profile not the first
C18_Witness ==
    /\ r_pc = "analyze"
    /\ Len(r_analyses) = 2
    /\ r_profiles[1] # r_profiles[2]
    /\ \A k \in 1..2 : r_heap[r_analyses[k].ids[1]] # <<>>

\* C21: for a profile ordered bottom to top every integrated layer has a
\* positive thickness, a layer in which the parcel is warmer than the
\* environment adds to CAPE and never to CIN, and a layer in which the
\* parcel is colder never adds to CAPE.
C21_WarmLayersAddCape ==
    (f_pc \in {"loop", "ret"} /\ "excess" \in DOMAIN f_in) =>
        \A k \in 1..Len(f_out.layers) :
            LET l == f_out.layers[k] IN
            /\ l.dz > 0
            /\ l.excess2 > 0 => (l.cape_after > l.cape_before
                                 /\ l.cin_after = l.cin_before)
            /\ l.excess2 < 0 => l.cape_after = l.cape_before

\* C22: in every call of the moist-ascent integrator the 5 hPa grid starts
\* at the parcel's start pressure and extends to the lowest requested
\* pressure, so that every requested level at or below the start pressure
\* lies between grid points instead of taking the value clamped at the end
\* of the grid, whatever the order of the requested levels.  The grid's
\* last point is allowed to stop short of a level by less than one step.
C22_GridCoversLevels ==
    (f_pc = "ret" /\ "p_levels_hpa" \in DOMAIN f_in) =>
        /\ f_out.p_fine[1] = f_in.p0_hpa
        /\ \A k \in 1..Len(f_in.p_levels_hpa) :
              /\ f_out.p_fine[Len(f_out.p_fine)] - f_in.p_levels_hpa[k] < 5
              /\ \A j \in 1..Len(f_in.p_levels_hpa) :
                    f_in.p_levels_hpa[j] < f_in.p_levels_hpa[k]
                        => f_out.result[j] < f_out.result[k]

\* the fields a stage assigns
StageOutputs(stage) ==
    CASE stage = "instability" ->
             {"mlcape", "mucape", "mlcin", "mucin", "ml_lcl_hgt", "mu_lcl_hgt",
              "ml_lcl_t_c", "mu_lcl_t_c"}
      [] stage = "li" -> {"li"}
      [] stage = "lapse" -> {"lapse_700_500", "lapse_sfc_700"}
      [] stage = "moisture" -> {"pw_mm"}
      [] stage = "rh" -> {"rh_sfc"}
      [] stage = "kinematics" ->
             {"shear_01_kt", "shear_06_kt", "shear_36_kt", "srh_01", "srh_03",
              "srh_eff", "storm_motion_rm", "storm_speed_kt"}
      [] stage = "composite" ->
             {"scp", "stp", "ehi_01", "ehi_03", "ship", "vgp", "craven"}
      [] stage = "boundary" -> {"boundary"}

\* C23: when a stage of analyze_profile fails, every output field of that
\* stage holds its neutral default in the state the following stages see,
\* none holds a partial or substituted value, and every following stage
\* still runs.
C23_NeutralOnFailure ==
    /\ \A stage \in failed :
          \A f \in StageOutputs(stage) : result[f] = EnvironmentAnalysis[f]
    /\ (pc = "done" /\ failed # {}) =>
          \A stage \in AllStages \cup {"scoring"} :
              \E i \in 1..Len(attempted) : attempted[i] = stage

\* the kinematic stage is behind
AfterKinematics == pc \in {"composite", "boundary", "scoring", "done"}

C25_DegenerateShear ==
    (f_pc = "ret" /\ "rm_u" \in DOMAIN f_out) =>
        LET n == Cardinality(AtOrBelow(f_in.h, 6000)) IN
        /\ n < 2 => f_out = [rm_u |-> 0, rm_v |-> 0, lm_u |-> 0, lm_v |-> 0,
                             mean_u |-> 0, mean_v |-> 0]
        /\ (n >= 2 /\ Shear06U * Shear06U + Shear06V * Shear06V < 25) =>
              /\ f_out.rm_u = f_out.mean_u + 75 /\ f_out.rm_v = f_out.mean_v - 75
              /\ f_out.lm_u = f_out.mean_u - 75 /\ f_out.lm_v = f_out.mean_v + 75

\* the levels between the surface pressure and depth hPa less than it
LowestLayer(depth) ==
    {i \in 1..Len(f_in.p_hpa) :
        f_in.p_hpa[i] <= f_in.p_sfc /\ f_in.p_hpa[i] >= f_in.p_sfc - depth}

\* C26: the mixed-layer parcel is the mean over exactly the levels whose
\* pressure lies between the surface pressure and 100 hPa less than it, and
\* the most-unstable parcel is the level of maximum theta-e among exactly the
\* levels between the surface pressure and 300 hPa less than it, the lowest
\* such level on ties, for every surface pressure passed.
C26_ParcelLayers ==
    (f_pc = "ret" /\ "theta_e_vals" \in DOMAIN f_in) =>
        /\ f_out.ml_levels = LowestLayer(100)
        /\ f_out.mu_idx \in LowestLayer(300)
        /\ \A i \in LowestLayer(300) :
              /\ f_in.theta_e_vals[i] <= f_in.theta_e_vals[f_out.mu_idx]
              /\ f_in.theta_e_vals[i] = f_in.theta_e_vals[f_out.mu_idx]
                    => f_out.mu_idx <= i

\* the levels of the band, and the turn of the storm-relative wind from
\* level i to level i + 1: positive counter-clockwise, negative clockwise
SrhBand == Cardinality(InLayer(Heights(4), 0, f_in.layer_top_m))

SrhTurn(i) ==
    (10 * f_in.u[i] - f_in.storm[1]) * (10 * f_in.v[i + 1] - f_in.storm[2])
    - (10 * f_in.u[i + 1] - f_in.storm[1]) * (10 * f_in.v[i] - f_in.storm[2])

FetchedAll(src) ==
    /\ \E i \in 1..Len(f_out.log) : f_out.log[i].source = src
    /\ \A i \in 1..Len(f_out.log) : f_out.log[i].source = src => f_out.log[i].ok

\* a step asked of the source failed
FailedStep(src) ==
    \E i \in 1..Len(f_out.log) : f_out.log[i].source = src /\ ~f_out.log[i].ok

\* the profiles fetched from a source, in the order of the log
FetchedFrom(src) ==
    LET Got(e) == e.source = src /\ e.ok
        got == SelectSeq(f_out.log, Got)
    IN [i \in 1..Len(got) |-> [source |-> src, fxx |-> got[i].fxx]]

\* the sources are tried in the fixed order, the gridded ones only with
\* Herbie, and the profiles returned are all of the source of the label
FetchOrder ==
    LET order == <<"HRRR", "NAM", "GFS", "Open-Meteo">> IN
    /\ IF f_in.herbie
       THEN f_out.tried = SubSeq(order, 1, Len(f_out.tried))
       ELSE f_out.tried = <<"Open-Meteo">>
    /\ \A i \in 1..Len(f_out.profiles) : f_out.profiles[i].source = f_out.label
    /\ \A g \in 1..3 :
          f_out.label = order[g] <=>
              /\ f_in.herbie /\ FetchedAll(order[g])
              /\ \A j \in 1..(g - 1) : FailedStep(order[j])
    /\ \A g \in 1..3 :
          /\ f_out.label = order[g] => f_out.profiles = FetchedFrom(order[g])
          /\ (f_in.herbie /\ f_out.label \in {"Open-Meteo", "None"})
                => FailedStep(order[g])
          /\ FailedStep(order[g]) => f_out.label # order[g]

C28_PartialWitness ==
    /\ f_pc = "ret" /\ "forecast_hours" \in DOMAIN f_in
    /\ f_out.label = "Open-Meteo"
    /\ FailedStep("Open-Meteo")

\* the three tornadic tiers of the supercell band
TornadicModes ==
    {"Significant Tornadic Supercells", "Tornadic Supercells",
     "Supercells / Tornado Possible"}

\* C29: in every returned analysis with MLCIN <= -200 J/kg or a mixed-layer
\* LCL at 2000 m or higher, STP is 0, the convective mode is none of the
\* three tornadic tiers, and the fifth score increment (0-1 km SRH > 200
\* and STP >= 1) is not awarded: the score is the count of the other four.
C29_CappedNoTornado ==
    (pc = "done" /\ (result.mlcin <= -200 \/ result.ml_lcl_hgt >= 2000)) =>
        /\ result.stp = 0
        /\ result.convective_mode \notin TornadicModes
        /\ result.support_score <= 4
        /\ ~InstabilityGate(result) =>
              result.support_score =
                  BoolToInt(result.mlcape > 500) + BoolToInt(result.mlcape > 1500)
                  + BoolToInt(result.shear_06_kt > 30)
                  + BoolToInt(result.scp > 200 \/ result.stp > 50)

\* a returned analysis, no stage failed, whose MLCAPE, 0-1 km SRH and shear
\* would give a positive STP but for its cap of -200 J/kg or below
C29_Witness ==
    /\ pc = "done" /\ failed = {}
    /\ result.mlcin <= -200
    /\ result.ml_lcl_hgt < 2000
    /\ result.mlcape >= 100 /\ result.srh_01 > 0 /\ result.shear_06_kt >= 12
    /\ result.stp = 0

\* C30: whenever the fail_modes of a returned analysis hold a "Weak
\* deep-layer shear" entry, the 0-6 km shear of that analysis is below
\* 20 kt: the "Pulse / Single Cell" branch reports weak shear only when the
\* shear is below the multicell threshold.
C30_WeakShearIsWeak ==
    (/\ s_pc = "ret"
     /\ \/ Mem(s_out.fail_modes, "Weak deep-layer shear (outflow dominant)")
        \/ Mem(s_out.fail_modes, "Weak deep-layer shear (isolated)"))
    => s_out.shear_06_kt < 20

=============================================================================
